---- MODULE Spec2Model ----
(***************************************************************************)
(* A model of the handshake user-space TCP stack: the per-connection       *)
(* state machine (src/src/tcp/tcb.rs), the connection manager and its      *)
(* segment loop (src/src/lib.rs), and the application handles              *)
(* (src/src/tcp/listen.rs, src/src/tcp/stream.rs).                         *)
(*                                                                         *)
(* Representation.                                                         *)
(*  - A u32 is held as its two's-complement residue in -2^31 .. 2^31-1     *)
(*    (TLC's integers are 32 bits wide); WrappingAdd / WrappingSub are     *)
(*    arithmetic modulo 2^32 on these residues and ULt is the unsigned     *)
(*    order.                                                               *)
(*  - An Option<Instant>, Option<u16> is None (-1) or the value; an        *)
(*    Instant is the number of milliseconds since the stack was created.   *)
(*  - A byte is named by its position in the stream of its sender: the     *)
(*    peer's byte at sequence number s is s, the k-th byte the local       *)
(*    application writes is k.                                             *)
(*  - A panic of a thread that holds the manager mutex poisons the mutex:  *)
(*    every later lock().unwrap() panics as well, so the model stops       *)
(*    there and records the place in `fault`.                              *)
(***************************************************************************)
EXTENDS Integers, Sequences, FiniteSets, TLC

\* ------------------------------------------------------------------ u32

MaxI32 == 2147483647
MinI32 == (-MaxI32) - 1

\* u32::wrapping_add on two's-complement residues.
WrappingAdd(a, b) ==
    IF a >= 0 /\ b >= 0 /\ a > MaxI32 - b THEN (a + MinI32) + (b + MinI32)
    ELSE IF a < 0 /\ b < 0 /\ a < MinI32 - b THEN (a - MinI32) + (b - MinI32)
    ELSE a + b

WrappingNeg(b) == IF b = MinI32 THEN MinI32 ELSE 0 - b

\* u32::wrapping_sub.
WrappingSub(a, b) == WrappingAdd(a, WrappingNeg(b))

\* The unsigned order of two u32.
ULt(a, b) == IF (a >= 0) = (b >= 0) THEN a < b ELSE a >= 0

\* `x as usize` of a u32 x: values of 2^31 and more are all held as Huge,
\* which is larger than every length the model builds.
Huge == MaxI32
AsUsize(x) == IF x >= 0 THEN x ELSE Huge

\* lhs.wrapping_sub(rhs) > (1 << 31); 1 << 31 is the residue MinI32.
wrapping_lt(lhs, rhs) == ULt(MinI32, WrappingSub(lhs, rhs))

is_between_wrapped(start, x, end) == wrapping_lt(start, x) /\ wrapping_lt(x, end)

Min(a, b) == IF a <= b THEN a ELSE b
Max(a, b) == IF a >= b THEN a ELSE b

None == -1

\* ------------------------------------------------------ program constants

DefaultMss == 536        \* snd.mss / rcv.mss of a new TCB
RcvBuf == 64240          \* rcv.wnd of a new TCB, and incoming.reserve_exact
InitialRto == 1000
MinRto == 1000
RtoG == 100              \* the clock granularity term of the RTO
R1 == 50000
R2 == 100000
R1Syn == 60000
R2Syn == 180000
TwoMsl == 240000
InitialCwnd == 2144      \* 4 * 536
ResetWindow == 1024      \* the window field of a reset frame
FallbackPort == 4000     \* connect: the port below the first ephemeral port

\* ------------------------------------------------------------ the TCB

States == {"Listen", "SynRcvd", "SynSent", "Estab", "FinWait1", "FinWait2",
           "Closing", "TimeWait", "CloseWait", "LastAck"}

\* Segment::end
SegEnd(seg) == WrappingSub(WrappingAdd(seg.sno, seg.len), 1)

\* Segment::unacked_data_len; chk: the build checks arithmetic overflow.
\* The result is a length, or Huge after a wrap, or None for a panic.
\* span is (end - una + 1) in u32, f the 1 or 0 subtracted for a FIN.
UnackedSpan(d, chk) == IF d = -1 THEN (IF chk THEN None ELSE 0) ELSE AsUsize(d) + 1

UnackedLen(span, f, chk) ==
    IF span = None THEN None
    ELSE IF span >= Huge THEN Huge
    ELSE IF span - f < 0 THEN (IF chk THEN None ELSE Huge)
    ELSE span - f

unacked_data_len(seg, chk) ==
    UnackedLen(UnackedSpan(WrappingSub(SegEnd(seg), seg.una), chk),
               IF seg.fin THEN 1 ELSE 0, chk)

NewTcb(kind, state, iss, arc) ==
    [kind |-> kind, state |-> state, arc |-> arc,
     reset |-> FALSE, write_closed |-> FALSE, read_closed |-> FALSE,
     time_wait |-> None,
     snd |-> [una |-> iss, nxt |-> iss, wnd |-> 0, wl1 |-> 0, wl2 |-> 0,
              iss |-> iss, mss |-> DefaultMss, max_wnd |-> 0],
     rcv |-> [nxt |-> 0, wnd |-> RcvBuf, irs |-> 0, mss |-> DefaultMss],
     srtt |-> 0, rttvar |-> 0, rto |-> InitialRto, rtt_measured |-> FALSE,
     timeout |-> None,
     cwnd |-> InitialCwnd, ssthresh |-> -1,
     probe_timeout |-> None,
     incoming |-> <<>>, outgoing |-> <<>>, out_cap |-> 0,
     segments |-> <<>>]

NewSegment(sno, len, fin, syn, ack, sent, mss) ==
    [sno |-> sno, una |-> sno, len |-> len, fin |-> fin, syn |-> syn,
     ack |-> ack, retry |-> FALSE, total_ret_time |-> 0, sent |-> sent,
     mss |-> mss]

\* TCB::listen
TcbListen(iss, arc) == NewTcb("Passive", "Listen", iss, arc)

\* TCB::syn_sent
TcbSynSent(iss, arc) ==
    LET t == NewTcb("Active", "SynSent", iss, arc)
    IN  [t EXCEPT !.segments = <<NewSegment(t.snd.nxt, 1, FALSE, TRUE, FALSE,
                                           None, t.rcv.mss)>>,
                  !.snd.nxt = WrappingAdd(t.snd.iss, 1)]

is_slow_start(t) == ULt(t.cwnd, t.ssthresh)

is_outgoing_full(t) == t.out_cap = Len(t.outgoing)

is_fin_acked(t) ==
    /\ t.outgoing = <<>>
    /\ t.segments = <<>>
    /\ t.snd.una = t.snd.nxt
    /\ t.write_closed

\* outgoing.len() - sent_len, in usize: a length, Huge after a wrap, None
\* for the panic of a build that checks overflow.
available_data_len(t, chk) ==
    LET sent_len == AsUsize(WrappingSub(t.snd.nxt, t.snd.una))
    IN  IF sent_len <= Len(t.outgoing) THEN Len(t.outgoing) - sent_len
        ELSE IF chk THEN None ELSE Huge

\* The send rule without "all queued data can be sent now" (d <= u).
sws_without_push(t, d) ==
    LET u == AsUsize(WrappingSub(WrappingAdd(t.snd.una, t.snd.wnd), t.snd.nxt))
    IN  \/ Min(d, u) >= t.snd.mss
        \/ Min(d, u) >= t.snd.max_wnd \div 2

\* TCB::sws_allows_send, given d = available_data_len() (not None).
sws_allows_send(t, d) ==
    LET u == AsUsize(WrappingSub(WrappingAdd(t.snd.una, t.snd.wnd), t.snd.nxt))
    IN  \/ Min(d, u) >= t.snd.mss
        \/ d <= u
        \/ Min(d, u) >= t.snd.max_wnd \div 2

\* A frame written to the interface (ioutil.rs: write_data, write_ack,
\* write_synack, write_reset).
Frame(seq, ackno, wnd, data, fin, syn, ack, rst, mss) ==
    [seq |-> seq, ackno |-> ackno, wnd |-> wnd, data |-> data, fin |-> fin,
     syn |-> syn, ack |-> ack, rst |-> rst, mss |-> mss]

write_data(seq, ackno, wnd, data, fin, syn, ack, mss) ==
    Frame(seq, ackno, wnd, data, fin, syn, ack, FALSE, mss)

write_ack(sqno, ackno, wnd) ==
    Frame(sqno, ackno, wnd, <<>>, FALSE, FALSE, TRUE, FALSE, None)

write_synack(sqno, ackno, wnd) ==
    Frame(sqno, ackno, wnd, <<>>, FALSE, TRUE, TRUE, FALSE, None)

\* The u32 sum seq + data.len() + (1 if SYN) of write_reset overflows.
ResetAckOverflows(seg) ==
    LET n == Len(seg.data) + (IF seg.syn THEN 1 ELSE 0)
    IN  ULt(WrappingAdd(seg.seq, n), seg.seq)

write_reset(seg) ==
    Frame(IF seg.ack THEN seg.ackno ELSE 0,
          WrappingAdd(seg.seq, Len(seg.data) + (IF seg.syn THEN 1 ELSE 0)),
          ResetWindow, <<>>, FALSE, FALSE, TRUE, TRUE, None)

\* The first n elements of s, and s without them.
Take(s, n) == SubSeq(s, 1, Min(n, Len(s)))
Drop(s, n) == SubSeq(s, Min(n, Len(s)) + 1, Len(s))

\* The while loop of TCB::process_ack over the retransmission queue.
\* st: "ok" (the loop ended), "hang" (an iteration changed nothing the loop
\* condition reads, so the loop never ends) or "panic".
LoopEnd(st, site, segs, out, cr, r) ==
    [st |-> st, site |-> site, segs |-> segs, out |-> out, cr |-> cr, r |-> r]

RECURSIVE ProcessAckLoop(_, _, _, _, _, _, _)
RECURSIVE ProcessAckFull(_, _, _, _, _, _, _, _)
ProcessAckLoop(segs, out, cr, r, ackno, now, chk) ==
    IF segs = <<>> THEN LoopEnd("ok", "", segs, out, cr, r)
    ELSE IF Head(segs).sent = None
    THEN LoopEnd("panic", "process_ack: seg.sent.unwrap()", segs, out, cr, r)
    ELSE IF is_between_wrapped(Head(segs).una, ackno,
                               WrappingAdd(SegEnd(Head(segs)), 1)) THEN
        \* Partial acknowledgment: seg.una <- ackno; the segment stays at the
        \* head and no branch applies to it again.
        IF AsUsize(WrappingSub(ackno, Head(segs).una)) > Len(out)
        THEN LoopEnd("panic", "process_ack: outgoing.drain", segs, out, cr, r)
        ELSE LoopEnd("hang", "process_ack: while !segments.is_empty()", segs, out, cr, r)
    ELSE IF wrapping_lt(SegEnd(Head(segs)), ackno)
    THEN ProcessAckFull(segs, out, cr, r, unacked_data_len(Head(segs), chk),
                        ackno, now, chk)
    ELSE LoopEnd("hang", "process_ack: while !segments.is_empty()", segs, out, cr, r)

\* The iteration for a fully acknowledged head segment with n unacknowledged
\* data bytes.
ProcessAckFull(segs, out, cr, r, n, ackno, now, chk) ==
    IF n = None THEN LoopEnd("panic", "unacked_data_len: overflow", segs, out, cr, r)
    ELSE IF n > Len(out)
    THEN LoopEnd("panic", "process_ack: outgoing.drain", segs, out, cr, r)
    ELSE ProcessAckLoop(Tail(segs), Drop(out, n), ~Head(segs).retry,
                        now - Head(segs).sent, ackno, now, chk)

\* process_ack leaving the retransmission timer as it was when the queue
\* became empty.
process_ack_keeps_timer(t, before_len, l) ==
    [st |-> l.st, site |-> l.site,
     tcb |-> [t EXCEPT !.segments = l.segs, !.outgoing = l.out],
     can_write |-> before_len < Len(l.out),
     r |-> IF l.cr THEN l.r ELSE None]

\* TCB::process_ack after its loop l: [st, site, tcb, can_write, r] with
\* r = None for no sample; before_len is outgoing.len() on entry.
ProcessAckEnd(t, before_len, l) ==
    [st |-> l.st, site |-> l.site,
     tcb |-> [t EXCEPT !.segments = l.segs, !.outgoing = l.out,
                       !.timeout = IF l.segs = <<>> THEN None
                                   ELSE Head(l.segs).sent + t.rto],
     can_write |-> before_len < Len(l.out),
     r |-> IF l.cr THEN l.r ELSE None]

\* TCB::process_ack
process_ack(t, ackno, now, chk) ==
    ProcessAckEnd([t EXCEPT !.snd.una = ackno], Len(t.outgoing),
                  ProcessAckLoop(t.segments, t.outgoing, FALSE, 0, ackno, now, chk))

\* TCB::congestion_control
congestion_control(t) ==
    IF is_slow_start(t) THEN [t EXCEPT !.cwnd = t.cwnd + t.snd.mss]
    ELSE [t EXCEPT !.cwnd = t.cwnd + Max((t.snd.mss * t.snd.mss) \div t.cwnd, 1)]

AbsDiff(a, b) == IF a >= b THEN a - b ELSE b - a

\* TCB::compute_rto; the f64 products are exact quarters and eighths.
SetRto(t, srtt, rttvar) ==
    [t EXCEPT !.srtt = srtt, !.rttvar = rttvar, !.rtt_measured = TRUE,
              !.rto = Max(srtt + Max(RtoG, 4 * rttvar), MinRto)]

compute_rto(t, r) ==
    IF ~t.rtt_measured THEN SetRto(t, r, r \div 2)
    ELSE SetRto(t, (7 * t.srtt + r) \div 8,
                (3 * t.rttvar + AbsDiff(t.srtt, r)) \div 4)

\* TCB::close: [st, site, tcb].  t1: the TCB in its new state, d its
\* available_data_len().
CloseFin(t1, d) ==
    IF d = None
    THEN [st |-> "panic", site |-> "available_data_len: overflow", tcb |-> t1]
    ELSE IF d = 0
    THEN [st |-> "ok", site |-> "",
          tcb |-> [t1 EXCEPT
              !.segments = Append(t1.segments,
                  NewSegment(t1.snd.nxt, 1, TRUE, FALSE, TRUE, None, None)),
              !.snd.nxt = WrappingAdd(t1.snd.nxt, 1)]]
    ELSE [st |-> "ok", site |-> "", tcb |-> t1]

close(t, chk) ==
    IF t.state # "Estab" /\ t.state # "CloseWait"
    THEN [st |-> "panic", site |-> "TCB::close: assert_eq!(state, CloseWait)", tcb |-> t]
    ELSE CloseFin([t EXCEPT !.state = IF t.state = "Estab" THEN "FinWait1"
                                      ELSE "LastAck"],
                  available_data_len(t, chk))

\* TCB::recv with a buffer of buflen bytes: [tcb, data]; cap is
\* incoming.capacity(), len the bytes taken, free the space left after it.
RecvEnd(t, len, free, cap) ==
    [data |-> Take(t.incoming, len),
     tcb |-> [t EXCEPT !.incoming = Drop(t.incoming, len),
                       !.rcv.wnd = IF free - t.rcv.wnd >= Min(cap \div 2, t.snd.mss)
                                   THEN free ELSE t.rcv.wnd]]

recv(t, buflen, cap) ==
    RecvEnd(t, Min(buflen, Len(t.incoming)),
            cap - (Len(t.incoming) - Min(buflen, Len(t.incoming))), cap)

\* ---------------------------------------------------------------- on_tick

\* The result of (a part of) on_tick; del: on_tick returns true.
TickRes(st, site, t, del, out) ==
    [st |-> st, site |-> site, tcb |-> t, del |-> del, out |-> out]

\* on_tick, the retransmission of the head segment seg with n unacknowledged
\* data bytes, whose retransmissions then add up to total ms.
Retransmit(t, seg, n, total, now) ==
    IF n = None THEN TickRes("panic", "unacked_data_len: overflow", t, FALSE, <<>>)
    ELSE TickRes("ok", "",
             [t EXCEPT !.segments = <<[seg EXCEPT !.retry = TRUE,
                                                  !.total_ret_time = total,
                                                  !.sent = now]>> \o Tail(t.segments),
                       !.rto = t.rto * 2,
                       !.timeout = now + t.rto * 2],
             \* if total > r1 { log } else if total > r2 { return true }
             IF seg.syn THEN ~(total > R1Syn) /\ total > R2Syn
                        ELSE ~(total > R1) /\ total > R2,
             <<write_data(seg.sno, t.rcv.nxt, t.rcv.wnd, Take(t.outgoing, n),
                          seg.fin, seg.syn, seg.ack, seg.mss)>>)

\* on_tick, first part: the retransmission timer.
TickRetransmit(t, now, chk) ==
    IF t.timeout = None \/ now < t.timeout THEN TickRes("ok", "", t, FALSE, <<>>)
    ELSE IF t.segments = <<>>
    THEN TickRes("panic", "on_tick: segments.front_mut().unwrap()", t, FALSE, <<>>)
    ELSE Retransmit(t, Head(t.segments), unacked_data_len(Head(t.segments), chk),
                    Head(t.segments).total_ret_time + t.rto, now)

\* on_tick: the new data segment of data_len bytes, fin set on it or not.
TransmitSeg(t, sent_len, data_len, fin, now) ==
    TickRes("ok", "",
        [t EXCEPT !.timeout = now + t.rto,
                  !.segments = Append(t.segments,
                      NewSegment(t.snd.nxt, data_len, fin, FALSE, TRUE, now, None)),
                  !.snd.nxt = WrappingAdd(WrappingAdd(t.snd.nxt, data_len),
                                          IF fin THEN 1 ELSE 0)],
        FALSE,
        <<write_data(t.snd.nxt, t.rcv.nxt, t.rcv.wnd,
                     Take(Drop(t.outgoing, sent_len), data_len), fin, FALSE, TRUE,
                     None)>>)

\* on_tick: outgoing holds data, d = available_data_len().
TransmitData(t, d, to_be_sent, now) ==
    IF d = None THEN TickRes("panic", "available_data_len: overflow", t, FALSE, <<>>)
    ELSE IF ~sws_allows_send(t, d) \/ ~(to_be_sent > 0)
    THEN TickRes("ok", "", t, FALSE, <<>>)
    ELSE TransmitSeg(t, AsUsize(WrappingSub(t.snd.nxt, t.snd.una)),
                     Min(to_be_sent, t.snd.mss),
                     Min(to_be_sent, t.snd.mss) = to_be_sent /\ t.write_closed, now)

\* min(min(d, cwnd), snd.wnd)
ToBeSent(t, d) == IF d = None THEN 0 ELSE Min(Min(d, t.cwnd), t.snd.wnd)

\* on_tick: the unsent control segment seg at the head of the queue.
TransmitControl(t, seg, now) ==
    TickRes("ok", "",
        [t EXCEPT !.segments = <<[seg EXCEPT !.sent = now]>> \o Tail(t.segments),
                  !.timeout = IF t.timeout = None THEN now + t.rto ELSE t.timeout],
        FALSE,
        <<write_data(seg.sno, t.rcv.nxt, t.rcv.wnd, <<>>, seg.fin, seg.syn,
                     seg.ack, seg.mss)>>)

\* on_tick, second part: a new data segment, or the unsent control segment
\* at the head of the queue.
TickTransmit(t, now, chk) ==
    IF t.outgoing # <<>>
    THEN TransmitData(t, available_data_len(t, chk),
                      ToBeSent(t, available_data_len(t, chk)), now)
    ELSE IF t.segments # <<>> /\ Head(t.segments).sent = None
    THEN TransmitControl(t, Head(t.segments), now)
    ELSE TickRes("ok", "", t, FALSE, <<>>)

\* on_tick: if time_wait >= Instant::now() { return true }
TimeWaitReached(t, now) == t.time_wait # None /\ t.time_wait >= now

\* on_tick: if probe_timeout >= Instant::now() { probe }
ProbeDue(t, now) == t.probe_timeout # None /\ t.probe_timeout >= now

ProbeData == <<0, 0, 0, 0, 0, 0, 0, 0>>

\* on_tick, third part: the time-wait and the zero-window probe timers of
\* the TCB t, after the frames out were written.
TickTimers(t, out, now) ==
    IF TimeWaitReached(t, now) THEN TickRes("ok", "", t, TRUE, out)
    ELSE IF ProbeDue(t, now)
    THEN TickRes("ok", "", [t EXCEPT !.probe_timeout = now + t.rto], FALSE,
                 Append(out, write_data(WrappingSub(t.snd.una, 1), t.rcv.nxt,
                                        t.rcv.wnd, ProbeData, FALSE, FALSE, TRUE,
                                        None)))
    ELSE TickRes("ok", "", t, FALSE, out)

\* on_tick after its first part a and its second part b.
TickJoin(a, b, now) ==
    IF b.st # "ok" THEN TickRes(b.st, b.site, b.tcb, FALSE, a.out \o b.out)
    ELSE TickTimers(b.tcb, a.out \o b.out, now)

\* on_tick after its first part a.
TickAfter(a, now, chk) ==
    IF a.st # "ok" \/ a.del THEN a
    ELSE TickJoin(a, TickTransmit(a.tcb, now, chk), now)

\* TCB::on_tick: [st, site, tcb, del, out]
on_tick(t, now, chk) == TickAfter(TickRetransmit(t, now, chk), now, chk)

\* ------------------------------------------------------------- on_segment

\* An inbound segment: the decoded header fields on_segment reads and the
\* payload.
Segment(seq, ackno, syn, ack, fin, rst, wnd, mss, data) ==
    [seq |-> seq, ackno |-> ackno, syn |-> syn, ack |-> ack, fin |-> fin,
     rst |-> rst, wnd |-> wnd, mss |-> mss, data |-> data]

\* The result of on_segment: the returned Action (wr, ww, wc are the flags of
\* Action::Wakeup), the TCB as the call left it, the frames it wrote.
Res(t, action, out) ==
    [st |-> "ok", site |-> "", tcb |-> t, action |-> action,
     wr |-> FALSE, ww |-> FALSE, wc |-> FALSE, out |-> out]

Stop(st, site, t, out) ==
    [st |-> st, site |-> site, tcb |-> t, action |-> "Noop",
     wr |-> FALSE, ww |-> FALSE, wc |-> FALSE, out |-> out]

\* The acceptability test that looks at the first sequence number of the
\* segment only.
first_seq_valid(t, seg_seq, seg_len) ==
    LET lo == WrappingSub(t.rcv.nxt, 1)
        hi == WrappingAdd(t.rcv.nxt, t.rcv.wnd)
    IN  IF t.rcv.wnd = 0 THEN seg_len = 0 /\ seg_seq = t.rcv.nxt
        ELSE is_between_wrapped(lo, seg_seq, hi)

\* TCB::is_segment_valid
is_segment_valid(t, seg_seq, seg_len) ==
    LET rcv_wnd == t.rcv.wnd
        rcv_nxt == t.rcv.nxt
        lo == WrappingSub(rcv_nxt, 1)
        hi == WrappingAdd(rcv_nxt, rcv_wnd)
    IN  IF seg_len = 0 /\ rcv_wnd = 0 THEN seg_seq = rcv_nxt
        ELSE IF seg_len = 0 /\ rcv_wnd > 0 THEN is_between_wrapped(lo, seg_seq, hi)
        ELSE IF seg_len > 0 /\ rcv_wnd = 0 THEN FALSE
        ELSE IF seg_len > 0 /\ rcv_wnd > 0
        THEN \/ is_between_wrapped(lo, seg_seq, hi)
             \/ is_between_wrapped(lo,
                    WrappingSub(WrappingAdd(seg_seq, seg_len), 1), hi)
        ELSE FALSE

\* The length on_segment hands to is_segment_valid.
seg_len_of(seg) ==
    Len(seg.data) + (IF seg.ack THEN 1 ELSE 0) + (IF seg.fin THEN 1 ELSE 0)

\* on_segment, state Listen.
OnSegmentListen(t, seg, chk) ==
    IF seg.rst THEN Res(t, "Noop", <<>>)
    ELSE IF seg.ack THEN
        IF chk /\ ResetAckOverflows(seg)
        THEN Stop("panic", "write_reset: overflow", t, <<>>)
        ELSE Res(t, "Noop", <<write_reset(seg)>>)
    ELSE IF seg.syn THEN
        LET mss == IF seg.mss = None THEN DefaultMss ELSE seg.mss
            t1 == [t EXCEPT
                     !.rcv.nxt = WrappingAdd(seg.seq, 1),
                     !.rcv.irs = seg.seq,
                     !.snd.wnd = seg.wnd,
                     !.snd.max_wnd = seg.wnd,
                     !.snd.mss = mss,
                     !.segments = <<NewSegment(t.snd.nxt, 1, FALSE, TRUE, TRUE,
                                               None, None)>> \o t.segments,
                     !.snd.nxt = WrappingAdd(t.snd.iss, 1),
                     !.state = "SynRcvd"]
        IN  Res(t1, "AddToPending", <<>>)
    ELSE Res(t, "Noop", <<>>)

\* The window snapshot and buffer reservation on entering Estab.
Establish(t, seg) ==
    [t EXCEPT !.snd.wnd = seg.wnd,
              !.snd.wl1 = seg.seq,
              !.snd.wl2 = seg.ackno,
              !.snd.max_wnd = Max(t.snd.max_wnd, seg.wnd),
              !.out_cap = Max(t.out_cap, Len(t.outgoing) + seg.wnd),
              !.segments = Tail(t.segments),
              !.timeout = None,
              !.state = "Estab"]

\* on_segment, state SynSent: a SYN took the TCB t to Estab.
SynSentEstab(t) ==
    Res(t, "IsEstablished", <<write_ack(t.snd.nxt, t.rcv.nxt, t.snd.wnd)>>)

\* on_segment, state SynSent: a SYN arrived; t has rcv.nxt, rcv.irs and
\* snd.una set from it.
SynSentSyn(t, seg) ==
    IF wrapping_lt(t.snd.iss, t.snd.una)
    THEN IF t.segments = <<>>
         THEN Stop("panic", "on_segment: segments.pop_front().unwrap()", t, <<>>)
         ELSE IF Tail(t.segments) # <<>>
         THEN Stop("panic", "on_segment: assert!(segments.is_empty())", t, <<>>)
         ELSE SynSentEstab(Establish(t, seg))
    ELSE Res([t EXCEPT !.state = "SynRcvd"], "Noop",
             <<write_synack(t.snd.nxt, t.rcv.nxt, t.snd.wnd)>>)

\* write_reset(&ip4h, &tcph, &[], tun): the frame carries no data.
ResetNoData(t, s0, chk) ==
    IF chk /\ ResetAckOverflows(s0)
    THEN Stop("panic", "write_reset: overflow", t, <<>>)
    ELSE Res(t, "Noop", <<write_reset(s0)>>)

\* on_segment, state SynSent.
OnSegmentSynSent(t, seg, chk) ==
    IF seg.ack /\ ~is_between_wrapped(t.snd.una, seg.ackno, WrappingAdd(t.snd.nxt, 1))
    THEN ResetNoData(t, [seg EXCEPT !.data = <<>>], chk)
    ELSE IF seg.ack /\ seg.rst THEN Res(t, "Reset", <<>>)
    ELSE IF seg.syn
    THEN SynSentSyn([t EXCEPT !.rcv.nxt = WrappingAdd(seg.seq, 1),
                              !.rcv.irs = seg.seq,
                              !.snd.una = seg.ackno], seg)
    ELSE Res(t, "Noop", <<>>)

SyncRstStates == {"Estab", "FinWait1", "FinWait2", "CloseWait"}
AckStates == {"Estab", "FinWait1", "FinWait2", "CloseWait", "Closing"}
TextStates == {"Estab", "FinWait1", "FinWait2"}

\* The result of the acknowledgment step: [st, site, tcb, ret, ww, out];
\* ret: on_segment returns Action::Noop there.
AckRes(st, site, t, ret, ww, out) ==
    [st |-> st, site |-> site, tcb |-> t, ret |-> ret, ww |-> ww, out |-> out]

\* on_segment, Estab .. Closing: the window update.
WindowUpdate(t, seg, now, ww) ==
    IF /\ is_between_wrapped(WrappingSub(t.snd.una, 1), seg.ackno,
                             WrappingAdd(t.snd.nxt, 1))
       /\ \/ wrapping_lt(t.snd.wl1, seg.seq)
          \/ /\ t.snd.wl1 = seg.seq
             /\ wrapping_lt(t.snd.wl2, WrappingAdd(seg.seq, 1))
    THEN AckRes("ok", "",
             [t EXCEPT !.snd.wnd = Min(seg.wnd, t.snd.max_wnd),
                       !.snd.wl1 = seg.seq,
                       !.snd.wl2 = seg.ackno,
                       !.probe_timeout = IF Min(seg.wnd, t.snd.max_wnd) = 0
                                         THEN now + t.rto ELSE None],
             FALSE, ww, <<>>)
    ELSE AckRes("ok", "", t, FALSE, ww, <<>>)

\* on_segment, Estab .. Closing: after process_ack returned pa.
AckAccepted(pa, seg, now) ==
    IF pa.st # "ok" THEN AckRes(pa.st, pa.site, pa.tcb, FALSE, FALSE, <<>>)
    ELSE WindowUpdate(IF pa.r = None THEN pa.tcb ELSE compute_rto(pa.tcb, pa.r),
                      seg, now, pa.can_write)

\* on_segment, fifth step for Estab .. Closing: the acknowledgment and the
\* window update.
AckEstab(t, seg, now, chk) ==
    IF is_between_wrapped(t.snd.una, seg.ackno, WrappingAdd(t.snd.nxt, 1))
    THEN AckAccepted(process_ack(congestion_control(t), seg.ackno, now, chk), seg, now)
    ELSE IF wrapping_lt(t.snd.nxt, seg.ackno)
    THEN AckRes("ok", "", t, TRUE, FALSE,
                <<write_ack(t.snd.nxt, t.rcv.nxt, t.rcv.wnd)>>)
    ELSE WindowUpdate(t, seg, now, FALSE)

\* The result of the text step: [st, site, tcb, process_fin, wr, out]
TextRes(st, site, t, process_fin, wr, out) ==
    [st |-> st, site |-> site, tcb |-> t, process_fin |-> process_fin,
     wr |-> wr, out |-> out]

\* The text step accepted the bytes data and moved rcv.nxt to nxt.
TextAccept(t, data, process_fin, nxt) ==
    TextRes("ok", "",
        [t EXCEPT !.incoming = t.incoming \o data,
                  !.rcv.nxt = nxt,
                  !.rcv.wnd = t.rcv.wnd - Len(data)],
        process_fin, data # <<>>,
        IF wrapping_lt(t.rcv.nxt, nxt) \/ t.rcv.wnd = 0
        THEN <<write_ack(t.snd.nxt, nxt, t.rcv.wnd - Len(data))>> ELSE <<>>)

\* The text step with new = rcv.nxt - seq and acc_len = min(new_len, rcv.wnd).
TextSlice(t, seg, new, acc_len, process_fin) ==
    TextAccept(t, SubSeq(seg.data, new + 1, new + acc_len), process_fin,
               WrappingAdd(WrappingAdd(t.rcv.nxt, acc_len),
                           IF process_fin THEN 1 ELSE 0))

TextNew(t, seg, new) ==
    IF new > Len(seg.data)
    THEN \* data.len() - new underflows; if it wraps, the slice
         \* data[new..new + acc_len] is out of range.
         TextRes("panic", "on_segment: data.len() - new", t, FALSE, FALSE, <<>>)
    ELSE TextSlice(t, seg, new, Min(Len(seg.data) - new, t.rcv.wnd),
                   seg.fin /\ Len(seg.data) - new = Min(Len(seg.data) - new, t.rcv.wnd))

\* on_segment, seventh step (Estab, FinWait1, FinWait2): the segment text.
SegmentText(t, seg) == TextNew(t, seg, AsUsize(WrappingSub(t.rcv.nxt, seg.seq)))

\* The time-wait timer starts.
StartTimeWait(t, now) ==
    [t EXCEPT !.state = "TimeWait", !.timeout = None, !.time_wait = now + TwoMsl]

\* on_segment, eighth step: the FIN bit.  [tcb, ret, wr]; ret: return
\* Action::Noop.
ProcessFin(t, now) ==
    IF t.state \in {"Listen", "SynSent"} THEN [tcb |-> t, ret |-> TRUE, wr |-> FALSE]
    ELSE IF t.state \in {"SynRcvd", "Estab"}
    THEN [tcb |-> [t EXCEPT !.state = "CloseWait", !.read_closed = TRUE],
          ret |-> FALSE, wr |-> TRUE]
    ELSE IF t.state = "FinWait1" THEN
        IF is_fin_acked(t)
        THEN [tcb |-> StartTimeWait(t, now), ret |-> FALSE, wr |-> FALSE]
        ELSE [tcb |-> [t EXCEPT !.state = "Closing"], ret |-> FALSE, wr |-> FALSE]
    ELSE IF t.state = "FinWait2"
    THEN [tcb |-> StartTimeWait(t, now), ret |-> FALSE, wr |-> FALSE]
    ELSE IF t.state \in {"CloseWait", "Closing", "LastAck"}
    THEN [tcb |-> t, ret |-> TRUE, wr |-> FALSE]
    ELSE [tcb |-> [t EXCEPT !.time_wait = now + TwoMsl], ret |-> FALSE, wr |-> FALSE]

\* on_segment: the returned Wakeup, after the text step tx and the FIN step
\* fin.
WakeupRes(tx, fin, ww, wc, out) ==
    IF tx.process_fin /\ fin.ret THEN Res(tx.tcb, "Noop", out \o tx.out)
    ELSE [st |-> "ok", site |-> "",
          tcb |-> IF tx.process_fin THEN fin.tcb ELSE tx.tcb,
          action |-> "Wakeup",
          wr |-> tx.wr \/ (tx.process_fin /\ fin.wr),
          ww |-> ww, wc |-> wc, out |-> out \o tx.out]

AfterText(tx, now, ww, wc, out) ==
    IF tx.st # "ok" THEN Stop(tx.st, tx.site, tx.tcb, out)
    ELSE WakeupRes(tx, ProcessFin(tx.tcb, now), ww, wc, out)

\* on_segment from the seventh step on.
FromText(t, seg, now, ww, out) ==
    AfterText(IF t.state \in TextStates THEN SegmentText(t, seg)
              ELSE TextRes("ok", "", t, seg.fin, FALSE, <<>>),
              now, ww, t.state = "FinWait2", out)

\* on_segment from the sixth step on, for a TCB t whose acknowledgment was
\* processed (ww: the writer is to be woken).
AfterAck(t, seg, now, ww, out) ==
    FromText(IF t.state = "FinWait1" /\ is_fin_acked(t)
             THEN [t EXCEPT !.state = "FinWait2"] ELSE t,
             seg, now, ww, out)

\* on_segment, Estab .. Closing, after the acknowledgment step a.
SyncAcked(a, seg, now) ==
    IF a.st # "ok" THEN Stop(a.st, a.site, a.tcb, a.out)
    ELSE IF a.ret THEN Res(a.tcb, "Noop", a.out)
    ELSE AfterAck(a.tcb, seg, now, a.ww, a.out)

\* on_segment, LastAck, after process_ack returned pa.
LastAcked(pa, seg, now) ==
    IF pa.st # "ok" THEN Stop(pa.st, pa.site, pa.tcb, <<>>)
    ELSE IF is_fin_acked(pa.tcb) THEN Res(pa.tcb, "DeleteTCB", <<>>)
    ELSE AfterAck(pa.tcb, seg, now, FALSE, <<>>)

\* on_segment, a synchronized state, from the fifth step (the ACK field) on.
SyncAck(t, seg, now, chk) ==
    IF t.state = "SynRcvd" THEN
        IF is_between_wrapped(t.snd.una, seg.ackno, WrappingAdd(t.snd.nxt, 1))
        THEN IF t.segments = <<>>
             THEN Stop("panic", "on_segment: segments.pop_front().unwrap()", t, <<>>)
             ELSE IF Tail(t.segments) # <<>>
             THEN Stop("panic", "on_segment: assert!(segments.is_empty())", t, <<>>)
             ELSE Res(Establish(t, seg), "IsEstablished", <<>>)
        ELSE IF chk /\ ResetAckOverflows(seg)
        THEN Stop("panic", "write_reset: overflow", t, <<>>)
        ELSE Res(t, "Noop", <<write_reset(seg)>>)
    ELSE IF t.state \in AckStates THEN SyncAcked(AckEstab(t, seg, now, chk), seg, now)
    ELSE IF t.state = "LastAck"
    THEN LastAcked(process_ack(t, seg.ackno, now, chk), seg, now)
    ELSE \* TimeWait
        AfterAck([t EXCEPT !.time_wait = now + TwoMsl], seg, now, FALSE,
                 <<write_ack(t.snd.nxt, t.rcv.nxt, t.rcv.wnd)>>)

\* The synchronized states answering every unacceptable segment with an ACK,
\* a reset as well.
sync_acks_every_segment(t, seg, now, chk) ==
    Res(t, "Noop", <<write_ack(t.snd.nxt, t.rcv.nxt, t.rcv.wnd)>>)

\* on_segment, every state but Listen and SynSent.
OnSegmentSync(t, seg, now, chk) ==
    IF ~is_segment_valid(t, seg.seq, seg_len_of(seg)) THEN
        IF seg.rst THEN Res(t, "Noop", <<>>)
        ELSE Res(t, "Noop", <<write_ack(t.snd.nxt, t.rcv.nxt, t.rcv.wnd)>>)
    ELSE IF seg.rst /\ t.state = "SynRcvd" THEN
        Res(t, IF t.kind = "Passive" THEN "RemoveFromPending"
               ELSE "ConnectionRefused", <<>>)
    ELSE IF seg.rst /\ t.state \in SyncRstStates THEN
        Res([t EXCEPT !.reset = TRUE], "Reset", <<>>)
    ELSE IF seg.syn /\ t.state = "SynRcvd" /\ t.kind = "Passive" THEN
        Res(t, "RemoveFromPending", <<>>)
    ELSE IF seg.syn /\ t.state # "SynRcvd" THEN
        IF chk /\ ResetAckOverflows(seg)
        THEN Stop("panic", "write_reset: overflow", t, <<>>)
        ELSE Res(t, "Reset", <<write_reset(seg)>>)
    ELSE IF ~seg.ack THEN Res(t, "Noop", <<>>)
    ELSE SyncAck(t, seg, now, chk)

\* TCB::on_segment
on_segment(t, seg, now, chk) ==
    IF t.state = "Listen" THEN OnSegmentListen(t, seg, chk)
    ELSE IF t.state = "SynSent" THEN OnSegmentSynSent(t, seg, chk)
    ELSE OnSegmentSync(t, seg, now, chk)

\* ------------------------------------------------- manager and handles

VARIABLES
    now,              \* Instant::now(), in ms
    overflow_checks,  \* the build panics on arithmetic overflow
    iss,              \* Manager::iss
    bounded,          \* Manager::bounded
    established,      \* Manager::established: port -> elts
    pending,          \* Manager::pending: quad -> TCB
    streams,          \* Manager::streams: quad -> TCB of the StreamEntry
    flags,            \* the Arc<AtomicBool>s of every TCB created, by arc
    nextArc,          \* the next arc to hand out
    listeners,        \* the TcpListener of each port and its accept call
    conn,             \* the NetStack::connect call
    handles,          \* the TcpStreams handed out, by arc
    fault,            \* the panic or endless loop that stopped the stack
    signalled,        \* the parked calls a notify_one has woken
    frames,           \* the number of frames read from the interface so far
    calls,            \* the number of calls the application made so far
    ev                \* what the last step did and returned

vars == <<now, overflow_checks, iss, bounded, established, pending, streams,
          flags, nextArc, listeners, conn, handles, fault, signalled, frames, calls, ev>>

\* Bounds of the model.
MaxNow == 1000        \* the clock stops here
MaxFrames == 2        \* frames read from the interface over a run
MaxCalls == 3         \* calls the application makes over a run
MaxPort == 4001       \* connect stops allocating ports here
MaxTcb == 2           \* TCBs kept over a run
MaxSegs == 3          \* segments on a retransmission queue when the loop runs
MaxData == 2          \* payload bytes of an inbound segment
MaxStream == 3        \* bytes a peer sends on one connection
MaxBuf == 2           \* buf.len() of a read or write
MaxWritten == 3       \* bytes the application offers on one stream

TimeStep == 1000      \* the clock advances in steps of this many ms
IssPeriod == 4        \* the ISS clock advances once in this many ms
PeerIsn == 100        \* the initial sequence number the peers use
Wnds == {0, 2}        \* the windows the peers advertise
Remotes == {"A", "B"} \* remote endpoints (address and port)
BindPorts == {4001}   \* ports the application binds

Empty == [x \in {} |-> x]
Put(f, k, v) == [x \in DOMAIN f \cup {k} |-> IF x = k THEN v ELSE f[x]]
Del(f, k) == [x \in DOMAIN f \ {k} |-> f[x]]

SetMax(S) == CHOOSE x \in S : \A y \in S : y <= x

NoFault == [kind |-> "none", site |-> ""]
Panic(site) == [kind |-> "panic", site |-> site]
Running == fault.kind = "none"

\* The record of a step.  op: the operation; id: its port or arc; res: what
\* it returned; n: the byte count returned; quad, src, action, arc: the quad
\* of the frame, where its TCB was found, the Action applied and the arc of
\* the TCB; notified: the condition variables notified.
Event(op, id, res, n) ==
    [op |-> op, id |-> id, res |-> res, n |-> n, quad |-> <<>>, src |-> "",
     action |-> "", arc |-> 0, notified |-> {}]
NoEvent == Event("none", 0, "", 0)

FlagsOf(t) == [reset |-> t.reset, read_closed |-> t.read_closed,
               write_closed |-> t.write_closed]

\* A TcpStream built from a backlog element; closed is the handle's own flag,
\* got the bytes its reads returned, wrote the number of bytes its writes
\* took, buf the buffer length of the call in progress.
NewHandle(elt, by) ==
    [quad |-> elt.quad, by |-> by, pc |-> "idle", closed |-> FALSE,
     buf |-> 0, got |-> <<>>, wrote |-> 0]

Init ==
    /\ now = 0
    /\ overflow_checks \in BOOLEAN
    /\ iss = 0
    /\ bounded = {}
    /\ established = Empty
    /\ pending = Empty
    /\ streams = Empty
    /\ flags = Empty
    /\ nextArc = 1
    /\ listeners = [p \in BindPorts |-> "none"]
    /\ conn = [pc |-> "idle", port |-> None, quad |-> <<>>, arc |-> 0, got |-> <<>>]
    /\ handles = Empty
    /\ fault = NoFault
    /\ signalled = {}
    /\ frames = 0
    /\ calls = 0
    /\ ev = NoEvent

\* The application makes one more call; the loop reads one more frame.
Call == calls < MaxCalls /\ calls' = calls + 1 /\ UNCHANGED frames
Wake == UNCHANGED <<frames, calls>>

\* NetStack::bind
Bind(p) ==
    /\ Call
    /\ Running
    /\ conn.pc = "idle"
    /\ listeners[p] \in {"none", "dropped"}
    /\ IF p \in DOMAIN established
       THEN /\ ev' = Event("bind", p, "PortInUse", 0)
            /\ UNCHANGED <<established, bounded, listeners, fault>>
       ELSE /\ established' = Put(established, p, <<>>)
            /\ IF p \in bounded
               THEN /\ fault' = Panic("bind: assert!(bounded.insert(port))")
                    /\ UNCHANGED <<bounded, listeners>>
                    /\ ev' = Event("bind", p, "panic", 0)
               ELSE /\ bounded' = bounded \cup {p}
                    /\ listeners' = [listeners EXCEPT ![p] = "idle"]
                    /\ ev' = Event("bind", p, "Ok", 0)
                    /\ UNCHANGED fault
    /\ UNCHANGED <<now, overflow_checks, iss, pending, streams, flags, nextArc,
                   conn, handles, signalled>>

\* Drop for TcpListener
DropListener(p) ==
    /\ Call
    /\ Running
    /\ listeners[p] = "idle"
    /\ IF p \in bounded
       THEN /\ bounded' = bounded \ {p}
            /\ listeners' = [listeners EXCEPT ![p] = "dropped"]
            /\ ev' = Event("drop_listener", p, "Ok", 0)
            /\ UNCHANGED fault
       ELSE /\ fault' = Panic("drop: assert!(bounded.remove(&port))")
            /\ ev' = Event("drop_listener", p, "panic", 0)
            /\ UNCHANGED <<bounded, listeners>>
    /\ UNCHANGED <<now, overflow_checks, iss, established, pending, streams,
                   flags, nextArc, conn, handles, signalled>>

\* The tail of accept and of connect: elts.pop().unwrap() and the TcpStream
\* built from the element.
PopBacklog(p, by) ==
    LET elts == established[p]
        elt == elts[Len(elts)]
    IN  /\ established' = [established EXCEPT ![p] = SubSeq(elts, 1, Len(elts) - 1)]
        /\ handles' = Put(handles, elt.arc, NewHandle(elt, by))
        /\ ev' = [Event(by, p, "Ok", 0) EXCEPT !.quad = elt.quad, !.arc = elt.arc]

\* TcpListener::accept up to the wait.
AcceptCall(p) ==
    /\ Call
    /\ Running
    /\ listeners[p] = "idle"
    /\ IF p \notin DOMAIN established
       THEN /\ fault' = Panic("accept: established[&port]")
            /\ ev' = Event("accept", p, "panic", 0)
            /\ UNCHANGED <<established, handles, listeners>>
       ELSE IF established[p] = <<>>
       THEN /\ listeners' = [listeners EXCEPT ![p] = "waiting"]
            /\ ev' = Event("accept", p, "wait", 0)
            /\ UNCHANGED <<established, handles, fault>>
       ELSE /\ PopBacklog(p, "accept")
            /\ UNCHANGED <<listeners, fault>>
    /\ UNCHANGED <<now, overflow_checks, iss, bounded, pending, streams, flags,
                   nextArc, conn, signalled>>

\* TcpListener::accept, a wakeup of the wait_while.
AcceptWake(p) ==
    /\ Wake
    /\ Running
    /\ listeners[p] = "waiting"
    /\ IF p \notin DOMAIN established
       THEN /\ fault' = Panic("accept: established[&port]")
            /\ ev' = Event("accept", p, "panic", 0)
            /\ UNCHANGED <<established, handles, listeners>>
       ELSE /\ established[p] # <<>>
            /\ PopBacklog(p, "accept")
            /\ listeners' = [listeners EXCEPT ![p] = "idle"]
            /\ UNCHANGED fault
    /\ signalled' = signalled \ {<<"accept", p>>}
    /\ UNCHANGED <<now, overflow_checks, iss, bounded, pending, streams, flags,
                   nextArc, conn>>

\* NetStack::connect up to the wait.
Connect(r) ==
    LET local_port == (IF bounded = {} THEN FallbackPort ELSE SetMax(bounded)) + 1
        quad == <<local_port, r>>
        tcb == TcbSynSent(iss, nextArc)
    IN  /\ Call
        /\ Running
        /\ conn.pc = "idle"
        /\ local_port <= MaxPort
        /\ nextArc <= MaxTcb
        /\ bounded' = bounded \cup {local_port}
        /\ pending' = Put(pending, quad, tcb)
        /\ flags' = Put(flags, nextArc, FlagsOf(tcb))
        /\ nextArc' = nextArc + 1
        /\ established' = Put(established, local_port, <<>>)
        /\ conn' = [pc |-> "waiting", port |-> local_port, quad |-> quad,
                    arc |-> nextArc, got |-> <<>>]
        /\ ev' = [Event("connect", local_port, "wait", 0) EXCEPT !.quad = quad,
                                                                 !.arc = nextArc]
        /\ UNCHANGED <<now, overflow_checks, iss, streams, listeners, handles,
                       fault, signalled>>

\* NetStack::connect, a wakeup of the wait_while.
ConnectWake ==
    /\ Wake
    /\ Running
    /\ conn.pc = "waiting"
    /\ established[conn.port] # <<>>
    /\ PopBacklog(conn.port, "connect")
    /\ conn' = [conn EXCEPT !.pc = "idle",
                            !.got = established[conn.port][Len(established[conn.port])].quad]
    /\ signalled' = signalled \ {<<"connect", conn.port>>}
    /\ UNCHANGED <<now, overflow_checks, iss, bounded, pending, streams, flags,
                   nextArc, listeners, fault>>

\* ---------------------------------------------------------- segment_loop

\* The bytes of a peer's stream at sequence numbers seq, seq + 1, ...
Bytes(seq, n) == [i \in 1..n |-> WrappingAdd(seq, i - 1)]

\* The on_tick calls of one pass over a map of TCBs.
TickAll(map) == [q \in DOMAIN map |-> on_tick(map[q], now, overflow_checks)]

\* The two tick passes of one iteration of segment_loop, given the on_tick
\* results sr (streams) and pr (pending): the faults one of them can end in,
\* and the maps they leave.  A quad whose pending TCB asked for deletion is
\* removed from streams.
TickMaps(sr, pr, kept_s, del_p) ==
    [faults |->
        {Panic(sr[q].site) : q \in {x \in DOMAIN sr : sr[x].st # "ok"}}
        \cup {Panic(pr[q].site) : q \in {x \in DOMAIN pr : pr[x].st # "ok"}}
        \cup (IF del_p \ kept_s # {}
              THEN {Panic("segment_loop: streams.remove(&quad).unwrap(), tick")}
              ELSE {}),
     streams |-> [q \in kept_s \ del_p |-> sr[q].tcb],
     pending |-> [q \in DOMAIN pr |-> pr[q].tcb]]

TickResults(sr, pr) ==
    TickMaps(sr, pr, {x \in DOMAIN sr : ~sr[x].del}, {x \in DOMAIN pr : pr[x].del})

TickPass == TickResults(TickAll(streams), TickAll(pending))

\* No retransmission queue has outgrown the bound of the model.
QueuesBounded ==
    /\ \A q \in DOMAIN streams : Len(streams[q].segments) <= MaxSegs
    /\ \A q \in DOMAIN pending : Len(pending[q].segments) <= MaxSegs

\* An iteration of segment_loop that finds no frame (or whose tick panics).
LoopIdle ==
    /\ Wake
    /\ Running
    /\ QueuesBounded
    /\ \E tp \in {TickPass} :
        IF tp.faults # {}
        THEN /\ \E f \in tp.faults : fault' = f
             /\ ev' = Event("tick", 0, "panic", 0)
             /\ UNCHANGED <<streams, pending>>
        ELSE /\ streams' = tp.streams
             /\ pending' = tp.pending
             /\ ev' = Event("tick", 0, "ok", 0)
             /\ UNCHANGED fault
    /\ UNCHANGED <<now, overflow_checks, iss, bounded, established, flags,
                   nextArc, listeners, conn, handles, signalled>>

\* The frames a peer sends to a quad, given the TCB t the quad has (state
\* "none": it has none).
PeerSegs(t) ==
    IF t.state = "none" THEN
        {Segment(PeerIsn, 0, TRUE, FALSE, FALSE, FALSE, w, None, <<>>) : w \in Wnds}
        \cup {Segment(PeerIsn, 0, FALSE, TRUE, FALSE, FALSE, 2, None, <<>>),
              Segment(PeerIsn, 0, FALSE, FALSE, FALSE, TRUE, 2, None, <<>>)}
    ELSE IF t.state = "SynSent" THEN
        {Segment(PeerIsn, a, TRUE, TRUE, FALSE, FALSE, w, None, <<>>) :
            a \in {t.snd.una, t.snd.nxt}, w \in Wnds}
        \cup {Segment(PeerIsn, a, TRUE, FALSE, FALSE, FALSE, 2, None, <<>>) :
            a \in {0, t.snd.nxt}}
        \cup {Segment(PeerIsn, a, FALSE, TRUE, FALSE, TRUE, 2, None, <<>>) :
            a \in {t.snd.una, t.snd.nxt}}
        \cup {Segment(PeerIsn, 0, FALSE, FALSE, FALSE, TRUE, 2, None, <<>>),
              Segment(PeerIsn, t.snd.nxt, FALSE, TRUE, FALSE, FALSE, 2, None, <<>>)}
    ELSE
        LET sent == AsUsize(WrappingSub(t.rcv.nxt, WrappingAdd(t.rcv.irs, 1)))
            seqs == {WrappingSub(t.rcv.nxt, 1), t.rcv.nxt, WrappingAdd(t.rcv.nxt, 1)}
            acks == {t.snd.una, WrappingAdd(t.snd.una, 1), t.snd.nxt}
        IN  {Segment(s, t.snd.una, FALSE, TRUE, f, FALSE, 2, None, Bytes(s, n)) :
                s \in seqs, f \in BOOLEAN,
                n \in {m \in 0..MaxData : sent + m <= MaxStream}}
            \cup {Segment(t.rcv.nxt, a, FALSE, TRUE, FALSE, FALSE, w, None, <<>>) :
                a \in acks, w \in Wnds}
            \cup {Segment(s, 0, FALSE, FALSE, FALSE, TRUE, 2, None, <<>>) :
                s \in {WrappingSub(t.rcv.nxt, 1), t.rcv.nxt}}
            \cup {Segment(s, 0, TRUE, FALSE, FALSE, FALSE, 2, None, <<>>) :
                s \in {WrappingSub(t.rcv.nxt, 1), t.rcv.nxt}}

NoTcb == [state |-> "none"]

\* segment_loop: where the frame's quad is looked up.
Lookup(q, s, p) ==
    IF q \in DOMAIN s THEN "streams"
    ELSE IF q \in DOMAIN p THEN "pending"
    ELSE IF q[1] \in bounded THEN "listen"
    ELSE "none"

\* segment_loop: the match on the Action that on_segment returned (r), for
\* the quad q found in src; s and p are the maps after on_segment.
\* [fault, streams, pending, established, notified]
Apply(r, q, src, s, p) ==
    LET same == [fault |-> NoFault, streams |-> s, pending |-> p,
                 established |-> established, notified |-> {}]
    IN  IF r.st # "ok" THEN [same EXCEPT !.fault = [kind |-> r.st, site |-> r.site]]
        ELSE IF r.action = "AddToPending" THEN [same EXCEPT !.pending = Put(p, q, r.tcb)]
        ELSE IF r.action = "RemoveFromPending" THEN [same EXCEPT !.pending = Del(p, q)]
        ELSE IF r.action = "IsEstablished" THEN
            IF q \notin DOMAIN p
            THEN [same EXCEPT !.fault = Panic("IsEstablished: pending.remove(&quad).unwrap()")]
            ELSE IF q[1] \notin DOMAIN established
            THEN [same EXCEPT !.fault = Panic("IsEstablished: established.get_mut(&port).unwrap()")]
            ELSE [same EXCEPT
                    !.pending = Del(p, q),
                    !.streams = Put(s, q, p[q]),
                    !.established = [established EXCEPT ![q[1]] =
                        Append(@, [quad |-> q, arc |-> p[q].arc])],
                    !.notified = {<<q[1], "cvar">>}]
        ELSE IF r.action = "Reset" THEN
            IF q \notin DOMAIN s
            THEN [same EXCEPT !.fault = Panic("Reset: streams.remove(&quad).unwrap()")]
            ELSE [same EXCEPT
                    !.streams = Del(s, q),
                    !.notified = {<<s[q].arc, "rvar">>, <<s[q].arc, "wvar">>,
                                  <<s[q].arc, "svar">>}]
        ELSE IF r.action = "Wakeup" THEN
            IF q \notin DOMAIN s
            THEN [same EXCEPT !.fault = Panic("Wakeup: streams[&quad]")]
            ELSE [same EXCEPT !.notified =
                    (IF r.wr THEN {<<s[q].arc, "rvar">>} ELSE {})
                    \cup (IF r.ww THEN {<<s[q].arc, "wvar">>} ELSE {})
                    \cup (IF r.wc THEN {<<s[q].arc, "svar">>} ELSE {})]
        ELSE IF r.action = "DeleteTCB" THEN
            IF q \notin DOMAIN s
            THEN [same EXCEPT !.fault = Panic("DeleteTCB: streams.remove(&quad).unwrap()")]
            ELSE [same EXCEPT !.streams = Del(s, q)]
        ELSE IF r.action = "ConnectionRefused"
        THEN [same EXCEPT !.fault = Panic("ConnectionRefused: todo!()")]
        ELSE same

\* notify_one on each of the condition variables cvs: the parked calls woken.
Parked(cvs) ==
    {<<"accept", p>> : p \in {x \in BindPorts :
        <<x, "cvar">> \in cvs /\ listeners[x] = "waiting"}}
    \cup {<<"connect", p>> : p \in {x \in {conn.port} :
        <<x, "cvar">> \in cvs /\ conn.pc = "waiting"}}
    \cup {<<"read", a>> : a \in {x \in DOMAIN handles :
        <<x, "rvar">> \in cvs /\ handles[x].pc = "read_wait"}}
    \cup {<<"write", a>> : a \in {x \in DOMAIN handles :
        <<x, "wvar">> \in cvs /\ handles[x].pc = "write_wait"}}
    \cup {<<"close", a>> : a \in {x \in DOMAIN handles :
        <<x, "svar">> \in cvs /\ handles[x].pc \in {"close_wait", "drop_wait"}}}

\* An iteration of segment_loop that reads the frame seg addressed to quad
\* q: what it leaves.  ticked: no tick of the iteration panicked; r: what
\* on_segment returned; ap: what the match on the Action left.
IterationEnd(q, src, ticked, r, ap, kept) ==
    [ticked |-> ticked,
     action |-> r.action,
     fault |-> ap.fault,
     streams |-> ap.streams,
     pending |-> ap.pending,
     established |-> ap.established,
     flags |-> IF kept THEN Put(flags, r.tcb.arc, FlagsOf(r.tcb)) ELSE flags,
     signalled |-> signalled \cup Parked(ap.notified),
     ev |-> [op |-> "segment", id |-> 0,
             res |-> IF ap.fault = NoFault THEN "ok" ELSE ap.fault.kind,
             n |-> 0, quad |-> q, src |-> src, action |-> r.action,
             arc |-> IF kept THEN r.tcb.arc ELSE 0, notified |-> ap.notified]]

\* The iteration after on_segment returned r for the TCB found in src.
Dispatched(q, src, tp, r) ==
    IterationEnd(q, src, tp.faults = {}, r,
        Apply(r, q, src,
              IF src = "streams" THEN [tp.streams EXCEPT ![q] = r.tcb] ELSE tp.streams,
              IF src = "pending" THEN [tp.pending EXCEPT ![q] = r.tcb] ELSE tp.pending),
        src \in {"streams", "pending"} \/ r.action = "AddToPending")

\* The frame of a quad without TCB and without bound port.
NoConnection(t0, seg) ==
    IF seg.rst THEN Res(t0, "Continue", <<>>)
    ELSE IF overflow_checks /\ ResetAckOverflows(seg)
    THEN Stop("panic", "write_reset: overflow", t0, <<>>)
    ELSE Res(t0, "Noop", <<write_reset(seg)>>)

\* The iteration after the tick passes tp, for the TCB looked up in src.
Dispatch(q, seg, tp, src) ==
    Dispatched(q, src, tp,
        IF src = "streams" THEN on_segment(tp.streams[q], seg, now, overflow_checks)
        ELSE IF src = "pending" THEN on_segment(tp.pending[q], seg, now, overflow_checks)
        ELSE IF src = "listen"
        THEN OnSegmentListen(TcbListen(iss, nextArc), seg, overflow_checks)
        ELSE NoConnection(TcbListen(iss, nextArc), seg))

Ticked(q, seg, tp) == Dispatch(q, seg, tp, Lookup(q, tp.streams, tp.pending))

Iteration(q, seg) == Ticked(q, seg, TickPass)

\* An iteration of segment_loop that reads the frame seg addressed to quad q.
LoopSegment(q, seg) ==
    /\ frames < MaxFrames /\ frames' = frames + 1 /\ UNCHANGED calls
    /\ Running
    /\ QueuesBounded
    /\ \E it \in {Iteration(q, seg)} :
        /\ it.ticked
        /\ it.action = "AddToPending" => nextArc <= MaxTcb
        /\ fault' = it.fault
        /\ streams' = it.streams
        /\ pending' = it.pending
        /\ established' = it.established
        /\ flags' = it.flags
        /\ nextArc' = IF it.action = "AddToPending" THEN nextArc + 1 ELSE nextArc
        /\ signalled' = it.signalled
        /\ ev' = it.ev
    /\ UNCHANGED <<now, overflow_checks, iss, bounded, listeners, conn, handles>>

\* The quads a frame can be addressed to, and the TCB a peer sees there.
Quads == (BindPorts \cup (FallbackPort + 1 .. MaxPort)) \X Remotes

TcbAt(q) ==
    IF q \in DOMAIN streams THEN streams[q]
    ELSE IF q \in DOMAIN pending THEN pending[q]
    ELSE NoTcb

Receive == \E q \in Quads : \E seg \in PeerSegs(TcbAt(q)) : LoopSegment(q, seg)

\* Time passes; the thread NetStack::new starts advances iss every 4 ms.
Elapse ==
    /\ now + TimeStep <= MaxNow
    /\ now' = now + TimeStep
    /\ iss' = WrappingAdd(iss, TimeStep \div IssPeriod)
    /\ ev' = NoEvent
    /\ UNCHANGED <<overflow_checks, bounded, established, pending, streams,
                   flags, nextArc, listeners, conn, handles, fault, signalled,
                   frames, calls>>

\* ------------------------------------------------------------- TcpStream

MinNonZeroCap == 8

\* outgoing.capacity() after extend() made the buffer hold need bytes.
Grow(cap, need) ==
    IF need <= cap THEN cap ELSE Max(Max(2 * cap, need), MinNonZeroCap)

\* The variables no TcpStream call touches.
StreamFrame ==
    UNCHANGED <<now, overflow_checks, iss, bounded, established, pending, flags,
                nextArc, listeners, conn>>

SetPc(a, pc, n) == [handles EXCEPT ![a].pc = pc, ![a].buf = n]

\* TcpStream::read, from the second reset check on: the drain of incoming.
ReadData(a) ==
    LET h == handles[a]
        t == streams[h.quad]
        end == Min(h.buf, Len(t.incoming))
    IN  IF flags[a].reset
        THEN /\ ev' = Event("read", a, "ConnectionReset", 0)
             /\ handles' = SetPc(a, "idle", h.buf)
             /\ UNCHANGED streams
        ELSE /\ streams' = [streams EXCEPT ![h.quad].incoming = Drop(t.incoming, end)]
             /\ handles' = [handles EXCEPT ![a].pc = "idle",
                                           ![a].got = @ \o Take(t.incoming, end)]
             /\ ev' = Event("read", a, "Ok", end)

\* TcpStream::read with a buffer of n bytes, up to the wait.
ReadCall(a, n) ==
    LET h == handles[a]
    IN  /\ Call
        /\ h.pc = "idle"
        /\ IF flags[a].reset
           THEN /\ ev' = Event("read", a, "ConnectionReset", 0)
                /\ UNCHANGED <<streams, handles>>
           ELSE /\ Running
                /\ IF h.quad \notin DOMAIN streams
                   THEN /\ ev' = Event("read", a, "StreamClosed", 0)
                        /\ UNCHANGED <<streams, handles>>
                   ELSE IF streams[h.quad].incoming = <<>>
                   THEN /\ handles' = SetPc(a, "read_wait", n)
                        /\ ev' = Event("read", a, "wait", 0)
                        /\ UNCHANGED streams
                   ELSE LET hs == SetPc(a, "idle", n)
                            t == streams[h.quad]
                            end == Min(n, Len(t.incoming))
                        IN  /\ streams' = [streams EXCEPT
                                              ![h.quad].incoming = Drop(t.incoming, end)]
                            /\ handles' = [hs EXCEPT ![a].got = @ \o Take(t.incoming, end)]
                            /\ ev' = Event("read", a, "Ok", end)
        /\ UNCHANGED <<fault, signalled>>
        /\ StreamFrame

\* TcpStream::read: the parked call wakes and evaluates the predicate of its
\* wait_while.
ReadWake(a) ==
    LET h == handles[a]
    IN  /\ Wake
        /\ Running
        /\ h.pc = "read_wait"
        /\ signalled' = signalled \ {<<"read", a>>}
        /\ IF h.quad \notin DOMAIN streams
           THEN /\ fault' = Panic("read: streams[&quad] in wait_while")
                /\ ev' = Event("read_wake", a, "panic", 0)
                /\ UNCHANGED <<streams, handles>>
           ELSE IF streams[h.quad].incoming = <<>> \/ ~flags[a].reset
           THEN /\ <<"read", a>> \in signalled
                /\ ev' = Event("read_wake", a, "wait", 0)
                /\ UNCHANGED <<streams, handles, fault>>
           ELSE /\ ReadData(a)
                /\ UNCHANGED fault
        /\ StreamFrame

\* TcpStream::write, from the second reset check on: the extend of outgoing.
WriteData(a) ==
    LET h == handles[a]
        t == streams[h.quad]
        len == Min(h.buf, t.out_cap)
    IN  IF flags[a].reset
        THEN /\ ev' = Event("write", a, "ConnectionReset", 0)
             /\ handles' = SetPc(a, "idle", h.buf)
             /\ UNCHANGED streams
        ELSE /\ streams' = [streams EXCEPT
                  ![h.quad].outgoing = @ \o [i \in 1..len |-> h.wrote + i],
                  ![h.quad].out_cap = Grow(@, Len(t.outgoing) + len)]
             /\ handles' = [handles EXCEPT ![a].pc = "idle", ![a].wrote = @ + len]
             /\ ev' = Event("write", a, "Ok", len)

\* TcpStream::write of n bytes, up to the wait.
WriteCall(a, n) ==
    LET h == handles[a]
    IN  /\ Call
        /\ h.pc = "idle"
        /\ h.wrote + n <= MaxWritten
        /\ IF h.closed
           THEN /\ ev' = Event("write", a, "NotConnected", 0)
                /\ UNCHANGED <<streams, handles>>
           ELSE IF flags[a].reset
           THEN /\ ev' = Event("write", a, "ConnectionReset", 0)
                /\ UNCHANGED <<streams, handles>>
           ELSE /\ Running
                /\ IF h.quad \notin DOMAIN streams
                   THEN /\ ev' = Event("write", a, "StreamClosed", 0)
                        /\ UNCHANGED <<streams, handles>>
                   ELSE IF is_outgoing_full(streams[h.quad])
                   THEN /\ handles' = SetPc(a, "write_wait", n)
                        /\ ev' = Event("write", a, "wait", 0)
                        /\ UNCHANGED streams
                   ELSE LET t == streams[h.quad]
                            len == Min(n, t.out_cap)
                        IN  /\ streams' = [streams EXCEPT
                                 ![h.quad].outgoing = @ \o [i \in 1..len |-> h.wrote + i],
                                 ![h.quad].out_cap = Grow(@, Len(t.outgoing) + len)]
                            /\ handles' = [handles EXCEPT ![a].buf = n,
                                                          ![a].wrote = @ + len]
                            /\ ev' = Event("write", a, "Ok", len)
        /\ UNCHANGED <<fault, signalled>>
        /\ StreamFrame

\* TcpStream::write: the parked call wakes and evaluates the predicate of its
\* wait_while.
WriteWake(a) ==
    LET h == handles[a]
    IN  /\ Wake
        /\ Running
        /\ h.pc = "write_wait"
        /\ signalled' = signalled \ {<<"write", a>>}
        /\ IF h.quad \notin DOMAIN streams
           THEN /\ fault' = Panic("write: streams[&quad] in wait_while")
                /\ ev' = Event("write_wake", a, "panic", 0)
                /\ UNCHANGED <<streams, handles>>
           ELSE IF is_outgoing_full(streams[h.quad]) \/ ~flags[a].reset
           THEN /\ <<"write", a>> \in signalled
                /\ ev' = Event("write_wake", a, "wait", 0)
                /\ UNCHANGED <<streams, handles, fault>>
           ELSE /\ WriteData(a)
                /\ UNCHANGED fault
        /\ StreamFrame

\* TcpStream::close up to the wait; drop: the call is the one of
\* Drop for TcpStream.
CloseCall(a, drop) ==
    LET h == handles[a]
        c == close(streams[h.quad], overflow_checks)
    IN  /\ Call
        /\ Running
        /\ h.pc = "idle"
        /\ IF h.quad \notin DOMAIN streams
           THEN /\ fault' = Panic("close: streams.get_mut(&quad).unwrap()")
                /\ handles' = [handles EXCEPT ![a].closed = TRUE]
                /\ ev' = Event("close", a, "panic", 0)
                /\ UNCHANGED streams
           ELSE /\ streams' = [streams EXCEPT ![h.quad] = c.tcb]
                /\ IF c.st # "ok"
                   THEN /\ fault' = Panic(c.site)
                        /\ handles' = [handles EXCEPT ![a].closed = TRUE]
                        /\ ev' = Event("close", a, "panic", 0)
                   ELSE /\ handles' = [handles EXCEPT
                               ![a].closed = TRUE,
                               ![a].pc = IF drop THEN "drop_wait" ELSE "close_wait"]
                        /\ ev' = Event("close", a, "wait", 0)
                        /\ UNCHANGED fault
        /\ UNCHANGED signalled
        /\ StreamFrame

\* TcpStream::close: svar.wait returns.
CloseWake(a) ==
    LET h == handles[a]
    IN  /\ Wake
        /\ Running
        /\ h.pc \in {"close_wait", "drop_wait"}
        /\ signalled' = signalled \ {<<"close", a>>}
        /\ handles' = [handles EXCEPT
               ![a].pc = IF h.pc = "drop_wait" THEN "dropped" ELSE "idle"]
        /\ ev' = Event("close_wake", a, "Ok", 0)
        /\ UNCHANGED <<streams, fault>>
        /\ StreamFrame

\* ------------------------------------------------------------ the system

Next ==
    \/ \E p \in BindPorts : Bind(p)
    \/ \E p \in BindPorts : DropListener(p)
    \/ \E p \in BindPorts : AcceptCall(p)
    \/ \E p \in BindPorts : AcceptWake(p)
    \/ \E r \in Remotes : Connect(r)
    \/ ConnectWake
    \/ LoopIdle
    \/ Receive
    \/ Elapse
    \/ \E a \in DOMAIN handles : \E n \in 1..MaxBuf : ReadCall(a, n)
    \/ \E a \in DOMAIN handles : ReadWake(a)
    \/ \E a \in DOMAIN handles : \E n \in 1..MaxBuf : WriteCall(a, n)
    \/ \E a \in DOMAIN handles : WriteWake(a)
    \/ \E a \in DOMAIN handles : \E d \in BOOLEAN : CloseCall(a, d)
    \/ \E a \in DOMAIN handles : CloseWake(a)

Spec == Init /\ [][Next]_vars

\* ------------------------------------------------------------ the claims

\* The TCB accepted the peer's FIN.
FinAccepted(t) == t.state \in {"CloseWait", "Closing", "LastAck", "TimeWait"}

\* The bytes the stream of handle a delivered so far: the ones its reads
\* returned, then the ones still in incoming.
Delivered(a) == handles[a].got \o streams[handles[a].quad].incoming

\* C1: on every connection a handle was given for, the bytes read and the
\* bytes waiting in incoming are the peer's byte stream from irs + 1 on, in
\* order, without duplicate and without gap, their number is
\* rcv.nxt - irs - 1 (one less once the FIN is accepted), and no inbound
\* segment - a duplicate, an overlapping one, one ahead of rcv.nxt - makes
\* the text step fail.
C1_InOrderDelivery ==
    /\ fault.site # "on_segment: data.len() - new"
    /\ \A a \in DOMAIN handles :
        handles[a].quad \in DOMAIN streams /\ streams[handles[a].quad].arc = a =>
            LET t == streams[handles[a].quad]
            IN  /\ Delivered(a) = Bytes(WrappingAdd(t.rcv.irs, 1), Len(Delivered(a)))
                /\ Len(Delivered(a)) + (IF FinAccepted(t) THEN 1 ELSE 0)
                       = AsUsize(WrappingSub(WrappingSub(t.rcv.nxt, t.rcv.irs), 1))

\* C2: no quad is a key of both pending and streams, and neither connect nor
\* AddToPending inserts a quad that is already a key of one of them.
C2_OneTcbPerQuad ==
    [][/\ DOMAIN pending' \cap DOMAIN streams' = {}
       /\ (\/ ev'.op = "connect" /\ ev'.res = "wait"
           \/ ev'.op = "segment" /\ ev'.action = "AddToPending")
              => ev'.quad \notin DOMAIN pending \cup DOMAIN streams]_vars

\* The arcs of the elements queued on the backlog of port p.
Queued(est, p) == {est[p][i].arc : i \in 1..Len(est[p])}

\* C3: IsEstablished moves the quad from pending to streams and pushes one
\* element on the backlog of its port; an element leaves a backlog only as
\* the stream an accept or connect call returns, and no element is returned
\* twice.
C3_ExactlyOnceHandoff ==
    [][/\ (ev'.op = "segment" /\ ev'.action = "IsEstablished" /\ ev'.res = "ok")
              => /\ ev'.quad \notin DOMAIN pending'
                 /\ ev'.quad \in DOMAIN streams'
                 /\ Len(established'[ev'.quad[1]]) = Len(established[ev'.quad[1]]) + 1
       /\ \A p \in DOMAIN established :
              Queued(established, p) \subseteq
                  Queued(established', p) \cup (DOMAIN handles' \ DOMAIN handles)
       /\ (ev'.op \in {"accept", "connect"} /\ ev'.res = "Ok")
              => ev'.arc \notin DOMAIN handles]_vars

\* C4: the stream connect returned wraps the quad connect created, and its
\* TCB is the SynSent TCB of the call, established by a SYN+ACK that
\* acknowledged its SYN.
C4_ConnectReturnsOwnQuad ==
    (conn.pc = "idle" /\ conn.got # <<>>) =>
        /\ conn.got = conn.quad
        /\ conn.arc \in DOMAIN handles
        /\ handles[conn.arc].by = "connect"

\* C5: when a RST with an acceptable ACK reaches an active open in SynSent,
\* the TCB leaves pending and the segment loop keeps running.
C5_SynSentResetRefused ==
    (ev.op = "segment" /\ ev.src = "pending" /\ ev.action = "Reset") =>
        /\ ev.quad \notin DOMAIN pending
        /\ Running

\* C6: once the loop applied Action::Reset to a stream, the quad is not in
\* streams, the reset flag of the stream is set, and its reader, writer and
\* closer were notified.
C6_ResetApplied ==
    (ev.op = "segment" /\ ev.src = "streams" /\ ev.action = "Reset" /\ ev.res = "ok") =>
        /\ ev.quad \notin DOMAIN streams
        /\ flags[ev.arc].reset
        /\ ev.notified = {<<ev.arc, "rvar">>, <<ev.arc, "wvar">>, <<ev.arc, "svar">>}

\* C7: a parked read or write that wakes does not fail in the predicate of
\* its wait, and a read or write returns ConnectionReset only when the reset
\* flag of its stream is set.
C7_ParkedCallSeesReset ==
    /\ ev.op \in {"read_wake", "write_wake"} => ev.res # "panic"
    /\ (ev.op \in {"read", "write"} /\ ev.res = "ConnectionReset") => flags[ev.id].reset

\* C8: a woken reader goes back to waiting only while incoming is empty and
\* the stream is neither reset nor read-closed.
C8_ReadWakesOnData ==
    (ev.op = "read_wake" /\ ev.res = "wait") =>
        /\ streams[handles[ev.id].quad].incoming = <<>>
        /\ ~flags[ev.id].reset
        /\ ~flags[ev.id].read_closed

\* C9: a read returns 0 only when the peer's FIN was accepted and incoming
\* is empty, and a read of a read-closed stream does not block.
C9_ReadEof ==
    /\ (ev.op = "read" /\ ev.res = "Ok" /\ ev.n = 0) =>
            /\ flags[ev.id].read_closed
            /\ streams[handles[ev.id].quad].incoming = <<>>
    /\ (ev.op \in {"read", "read_wake"} /\ ev.res = "wait") =>
            ~flags[ev.id].read_closed

\* C10: a write that returns n appended the first n = min(buf.len, free
\* space) bytes of its buffer after the bytes written before, so outgoing
\* does not outgrow its capacity.
C10_WriteFits ==
    [][(ev'.op = "write" /\ ev'.res = "Ok") =>
          LET q == handles[ev'.id].quad
              free == streams[q].out_cap - Len(streams[q].outgoing)
          IN  /\ ev'.n = Min(handles'[ev'.id].buf, free)
              /\ streams'[q].outgoing = streams[q].outgoing \o
                     [i \in 1..ev'.n |-> handles[ev'.id].wrote + i]
              /\ Len(streams'[q].outgoing) <= streams[q].out_cap]_vars

\* The peer acknowledged the FIN of the stream of handle a: its TCB reached
\* FinWait2 or TimeWait, or was deleted.
OurFinAcked(a) ==
    \/ handles[a].quad \notin DOMAIN streams
    \/ streams[handles[a].quad].arc # a
    \/ streams[handles[a].quad].state \in {"FinWait2", "TimeWait"}

\* C11: close returns only once the peer acknowledged our FIN or the
\* connection was reset; no other wakeup of the closer ends its wait.
C11_CloseWaitsForFinAck ==
    ev.op = "close_wake" => flags[ev.id].reset \/ OurFinAcked(ev.id)

\* The TCB t of handle a sent its FIN after every byte the application
\* wrote, and the peer acknowledged all of it.
FinSentAndAcked(t, a) ==
    /\ t.state \in {"FinWait1", "FinWait2", "Closing", "LastAck", "TimeWait"}
    /\ t.snd.nxt = WrappingAdd(t.snd.iss, handles[a].wrote + 2)
    /\ t.snd.una = t.snd.nxt

\* C12: once the peer acknowledged our FIN, on the active and on the passive
\* path, a closer parked on its condition variable has been woken.
C12_CloseReturnsAfterFinAck ==
    \A a \in DOMAIN handles :
        (/\ handles[a].pc \in {"close_wait", "drop_wait"}
         /\ handles[a].quad \in DOMAIN streams
         /\ streams[handles[a].quad].arc = a
         /\ FinSentAndAcked(streams[handles[a].quad], a))
            => <<"close", a>> \in signalled

\* ------------------------------------------- the retransmission time line

\* The instants at which a timer of a TCB expires after now.
Deadlines ==
    {streams[q].timeout : q \in {x \in DOMAIN streams : streams[x].timeout # None}}
    \cup {pending[q].timeout : q \in {x \in DOMAIN pending : pending[x].timeout # None}}
    \cup {streams[q].time_wait : q \in {x \in DOMAIN streams : streams[x].time_wait # None}}

MaxTimerNow == 260000

\* Time passes until the instant d.
ElapseTo(d) ==
    /\ d > now /\ d <= MaxTimerNow
    /\ now' = d
    /\ iss' = WrappingAdd(iss, (d - now) \div IssPeriod)
    /\ ev' = NoEvent
    /\ UNCHANGED <<overflow_checks, bounded, established, pending, streams,
                   flags, nextArc, listeners, conn, handles, fault, signalled,
                   frames, calls>>

\* Time passes until the next timer of a TCB expires.
ElapseToTimer ==
    \E d \in Deadlines : (\A e \in Deadlines : e > now => d <= e) /\ ElapseTo(d)

\* The peer's SYN+ACK that acknowledges the SYN of the TCB t.
SynAckOf(t) == Segment(PeerIsn, t.snd.nxt, TRUE, TRUE, FALSE, FALSE, 2, None, <<>>)

\* A connection is opened and used at instant 0 ...
TimerConnect == now = 0 /\ Connect("A")

TimerEstablish ==
    /\ now = 0
    /\ \E q \in DOMAIN pending : LoopSegment(q, SynAckOf(pending[q]))

TimerWrite == now = 0 /\ \E a \in DOMAIN handles : WriteCall(a, 1)

TimerRead == now = 0 /\ \E a \in DOMAIN handles : ReadCall(a, 1)

TimerClose == now = 0 /\ \E a \in DOMAIN handles : CloseCall(a, FALSE)

\* ... and then the peer stays silent while segment_loop keeps ticking.
TimerNext ==
    \/ TimerConnect
    \/ TimerEstablish
    \/ ConnectWake
    \/ TimerWrite
    \/ TimerRead
    \/ TimerClose
    \/ LoopIdle
    \/ ElapseToTimer

TimerSpec == Init /\ [][TimerNext]_vars

\* The TCBs of the manager.
Tcbs == {streams[q] : q \in DOMAIN streams} \cup {pending[q] : q \in DOMAIN pending}

\* R2 for the segment seg: r2_syn for a SYN, r2 otherwise.
R2Of(seg) == IF seg.syn THEN R2Syn ELSE R2

\* The on_tick call with result r retransmitted the head segment of the TCB t.
Retransmitted(t, r) ==
    /\ t.timeout # None /\ now >= t.timeout
    /\ t.segments # <<>>
    /\ r.st = "ok"
    /\ r.tcb.segments # <<>>

\* C13: on_tick returns true at the retransmission at which the head
\* segment's total retransmission time first exceeds R2, and a retransmission
\* that leaves it at or below R2 does not make on_tick return true.
C13_GivesUpAtR2 ==
    \A t \in Tcbs :
        \A r \in {on_tick(t, now, overflow_checks)} :
            Retransmitted(t, r) =>
                IF /\ Head(t.segments).total_ret_time <= R2Of(Head(t.segments))
                   /\ Head(r.tcb.segments).total_ret_time > R2Of(Head(t.segments))
                THEN r.del
                ELSE TimeWaitReached(r.tcb, now) \/ ~r.del

\* The calls parked on a condition variable of their stream.
ParkedPcs == {"read_wait", "write_wait", "close_wait", "drop_wait"}

\* The call of handle a is parked and has been notified.
Woken(a) ==
    \/ handles[a].pc = "read_wait" /\ <<"read", a>> \in signalled
    \/ handles[a].pc = "write_wait" /\ <<"write", a>> \in signalled
    \/ handles[a].pc \in {"close_wait", "drop_wait"} /\ <<"close", a>> \in signalled

\* The retransmissions of the head segment of the stream of handle a added up
\* to more than R2.
ExceededR2(a) ==
    /\ handles[a].quad \in DOMAIN streams
    /\ streams[handles[a].quad].arc = a
    /\ streams[handles[a].quad].segments # <<>>
    /\ Head(streams[handles[a].quad].segments).total_ret_time > R2

TimeWaitTcb(arc, at) ==
    StartTimeWait(
        [NewTcb("Active", "FinWait2", 0, arc) EXCEPT
            !.snd.una = 2, !.snd.nxt = 2, !.snd.wnd = 2, !.snd.max_wnd = 2,
            !.snd.wl1 = WrappingAdd(PeerIsn, 1), !.snd.wl2 = 2,
            !.rcv.irs = PeerIsn, !.rcv.nxt = WrappingAdd(PeerIsn, 2),
            !.out_cap = 2, !.rtt_measured = TRUE, !.read_closed = TRUE],
        at)

TimeWaitQuad == <<FallbackPort + 1, "A">>

\* The manager with one stream, which entered TimeWait at instant 0.
TimeWaitInit ==
    /\ now = 0
    /\ overflow_checks \in BOOLEAN
    /\ iss = 0
    /\ bounded = {FallbackPort + 1}
    /\ established = Put(Empty, FallbackPort + 1, <<>>)
    /\ pending = Empty
    /\ streams = Put(Empty, TimeWaitQuad, TimeWaitTcb(1, 0))
    /\ flags = Put(Empty, 1, FlagsOf(TimeWaitTcb(1, 0)))
    /\ nextArc = 2
    /\ listeners = [p \in BindPorts |-> "none"]
    /\ conn = [pc |-> "idle", port |-> FallbackPort + 1, quad |-> TimeWaitQuad,
               arc |-> 1, got |-> TimeWaitQuad]
    /\ handles = Put(Empty, 1,
                     [NewHandle([quad |-> TimeWaitQuad], "connect") EXCEPT
                         !.closed = TRUE])
    /\ fault = NoFault
    /\ signalled = {}
    /\ frames = 0
    /\ calls = 0
    /\ ev = NoEvent

TimeWaitStep == 10000

TimeWaitElapse == ElapseTo(now + TimeWaitStep)

\* The peer retransmits its FIN.
PeerFinAgain ==
    \E q \in DOMAIN streams :
        LoopSegment(q, Segment(WrappingSub(streams[q].rcv.nxt, 1), streams[q].snd.nxt,
                               FALSE, TRUE, TRUE, FALSE, 2, None, <<>>))

TimeWaitNext ==
    \/ LoopIdle
    \/ TimeWaitElapse
    \/ PeerFinAgain

TimeWaitSpec == TimeWaitInit /\ [][TimeWaitNext]_vars

AckOfFin(t) ==
    Segment(t.rcv.nxt, t.snd.nxt, FALSE, TRUE, FALSE, FALSE, 2, None, <<>>)

\* The TCB t is in Closing after a simultaneous close: its FIN is the one
\* segment sent and not acknowledged, the peer's FIN was received.
SimultaneousClose(t) ==
    /\ t.state = "Closing"
    /\ Len(t.segments) = 1
    /\ Head(t.segments).fin /\ Head(t.segments).sent # None
    /\ t.snd.nxt = WrappingAdd(t.snd.una, 1)

\* C16: simultaneous close.  When the ACK of our FIN arrives at a TCB that a
\* local close and then the peer's FIN took through FinWait1 to Closing, the
\* TCB moves to TimeWait and the 2*MSL timer is armed.
C16_ClosingToTimeWait ==
    \A q \in DOMAIN streams :
        SimultaneousClose(streams[q]) =>
            \A r \in {on_segment(streams[q], AckOfFin(streams[q]), now, overflow_checks)} :
                /\ r.st = "ok"
                /\ r.tcb.state = "TimeWait"
                /\ r.tcb.time_wait = now + TwoMsl

\* a <= b in wrap-around order (wrapping_lt, tcb.rs:1728, or equal).
WrappingLe(a, b) == a = b \/ wrapping_lt(a, b)

\* C17: in every state of every TCB, snd.una <= snd.nxt <= snd.una + snd.wnd
\* in wrap-around order.
C17_SendWindow ==
    \A t \in Tcbs :
        /\ WrappingLe(t.snd.una, t.snd.nxt)
        /\ WrappingLe(t.snd.nxt, WrappingAdd(t.snd.una, t.snd.wnd))

\* The sum of unacked_data_len over the retransmission queue segs; Huge
\* once a term wrapped.
RECURSIVE SumUnacked(_)
SumUnacked(segs) ==
    IF segs = <<>> THEN 0
    ELSE IF unacked_data_len(Head(segs), FALSE) >= Huge
            \/ SumUnacked(Tail(segs)) >= Huge
    THEN Huge
    ELSE unacked_data_len(Head(segs), FALSE) + SumUnacked(Tail(segs))

\* The sequence numbers that the SYN and FIN segments of the queue occupy.
RECURSIVE ControlLen(_)
ControlLen(segs) ==
    IF segs = <<>> THEN 0
    ELSE (IF Head(segs).syn \/ Head(segs).fin THEN 1 ELSE 0) + ControlLen(Tail(segs))

\* The byte that write stored as the k-th of the stream has sequence number
\* iss + k: outgoing starts with the byte at snd.una.
OutgoingFromUna(t) ==
    \A i \in 1..Len(t.outgoing) :
        t.outgoing[i] = WrappingSub(WrappingAdd(t.snd.una, i - 1), t.snd.iss)

\* C18: for every established TCB the unacknowledged data bytes of the queue
\* add up to snd.nxt - snd.una less the outstanding SYN and FIN, and they are
\* the first bytes of outgoing, in sequence order from snd.una.
C18_OutgoingMatchesQueue ==
    Running =>
        \A q \in DOMAIN streams :
            /\ SumUnacked(streams[q].segments)
                 = AsUsize(WrappingSub(streams[q].snd.nxt, streams[q].snd.una))
                     - ControlLen(streams[q].segments)
            /\ SumUnacked(streams[q].segments) <= Len(streams[q].outgoing)
            /\ OutgoingFromUna(streams[q])

\* ------------------------------------------------------- the RTO estimator

\* TCB::compute_rto of tcp/mod.rs, the TCB that the module file of `tcp`
\* itself defines: as in tcb.rs, except for its last statement,
\* self.rto = cmp::min(self.rto, 1000).
SetRtoMin(t, srtt, rttvar) ==
    [t EXCEPT !.srtt = srtt, !.rttvar = rttvar, !.rtt_measured = TRUE,
              !.rto = Min(srtt + Max(RtoG, 4 * rttvar), MinRto)]

mod_compute_rto(t, r) ==
    IF ~t.rtt_measured THEN SetRtoMin(t, r, r \div 2)
    ELSE SetRtoMin(t, (7 * t.srtt + r) \div 8,
                   (3 * t.rttvar + AbsDiff(t.srtt, r)) \div 4)

\* The round-trip times measured, in ms.
Samples == {0, 1, 200, 1000, 3000}

MaxRto == 64000

EstimatorQuad == <<FallbackPort + 1, "A">>

\* The manager with one established stream of an active open, its estimator
\* as TCB::syn_sent built it.
EstimatorInit ==
    /\ now = 0
    /\ overflow_checks \in BOOLEAN
    /\ iss = 0
    /\ bounded = {FallbackPort + 1}
    /\ established = Put(Empty, FallbackPort + 1, <<>>)
    /\ pending = Empty
    /\ streams = Put(Empty, EstimatorQuad,
                     Establish([TcbSynSent(0, 1) EXCEPT !.snd.una = 1],
                               SynAckOf(TcbSynSent(0, 1))))
    /\ flags = Put(Empty, 1, FlagsOf(TcbSynSent(0, 1)))
    /\ nextArc = 2
    /\ listeners = [p \in BindPorts |-> "none"]
    /\ conn = [pc |-> "idle", port |-> FallbackPort + 1, quad |-> EstimatorQuad,
               arc |-> 1, got |-> EstimatorQuad]
    /\ handles = Put(Empty, 1, NewHandle([quad |-> EstimatorQuad], "connect"))
    /\ fault = NoFault
    /\ signalled = {}
    /\ frames = 0
    /\ calls = 0
    /\ ev = NoEvent

\* An acknowledgment gives the sample r to the estimator f.
Measure(f, r, op) ==
    /\ frames < MaxFrames /\ frames' = frames + 1
    /\ streams' = [q \in DOMAIN streams |-> IF f = "mod" THEN mod_compute_rto(streams[q], r)
                                            ELSE compute_rto(streams[q], r)]
    /\ ev' = Event(op, 0, "ok", r)
    /\ UNCHANGED <<now, overflow_checks, iss, bounded, established, pending,
                   flags, nextArc, listeners, conn, handles, fault, signalled,
                   calls>>

\* TCB::compute_rto of tcb.rs takes a sample.
Sample == \E r \in Samples : Measure("tcb", r, "compute_rto")

\* TCB::compute_rto of mod.rs takes a sample.
SampleMod == \E r \in Samples : Measure("mod", r, "mod_compute_rto")

\* on_tick's back-off at a retransmission: self.rto *= 2.
BackOff ==
    /\ \A q \in DOMAIN streams : streams[q].rto * 2 <= MaxRto
    /\ streams' = [q \in DOMAIN streams |-> [streams[q] EXCEPT !.rto = @ * 2]]
    /\ ev' = Event("back_off", 0, "ok", 0)
    /\ UNCHANGED <<now, overflow_checks, iss, bounded, established, pending,
                   flags, nextArc, listeners, conn, handles, fault, signalled,
                   frames, calls>>

EstimatorNext ==
    \/ Sample
    \/ SampleMod
    \/ BackOff

EstimatorSpec == EstimatorInit /\ [][EstimatorNext]_vars

\* C19: once the first RTT sample has been taken, rto is at least 1000 ms.
C19_RtoFloor ==
    \A t \in Tcbs : t.rtt_measured => t.rto >= MinRto

\* C20: bind(port) fails with PortInUse iff the port is in bounded, and then
\* leaves the manager as it was; otherwise it adds the port to bounded and
\* creates its empty backlog.  So bind succeeds again after the listener of
\* the port was dropped.
C20_BindIffBound ==
    [][ev'.op = "bind" =>
          IF ev'.id \in bounded
          THEN /\ ev'.res = "PortInUse"
               /\ UNCHANGED <<bounded, established, pending, streams>>
          ELSE /\ ev'.res = "Ok"
               /\ bounded' = bounded \cup {ev'.id}
               /\ ev'.id \in DOMAIN established'
               /\ established'[ev'.id] = <<>>]_vars

\* --------------------------------------------------------------- the sender

\* The windows the peer offers, the largest it ever offered, the congestion
\* windows, the peer's MSS and the numbers of bytes written and not yet sent.
SenderWnds == {0, 3, 200}
SenderMaxWnds == {200, 4096}
SenderCwnds == {2, InitialCwnd}
SenderMss == {4, DefaultMss}
SenderQueued == {0, 2, 5, 100}

SenderQuad == <<FallbackPort + 1, "A">>

\* An established stream of an active open with nothing in flight: the peer
\* offers the window w after having offered mw, the congestion window is cw,
\* the application wrote n bytes.
OpenSender(w, mw, cw, mss, n) ==
    [Establish([TcbSynSent(0, 1) EXCEPT !.snd.una = 1], SynAckOf(TcbSynSent(0, 1)))
        EXCEPT !.snd.wnd = w, !.snd.max_wnd = mw, !.cwnd = cw, !.snd.mss = mss,
               !.outgoing = [i \in 1..n |-> i], !.out_cap = Max(n, MinNonZeroCap)]

\* The stream after TcpStream::close, when closed: the write_closed flag it
\* shares with the TCB is set and TCB::close has run.
SenderTcb(t, closed, chk) ==
    IF closed THEN close([t EXCEPT !.write_closed = TRUE], chk).tcb ELSE t

SenderInit ==
    /\ now = 0
    /\ overflow_checks \in BOOLEAN
    /\ iss = 0
    /\ bounded = {FallbackPort + 1}
    /\ established = Put(Empty, FallbackPort + 1, <<>>)
    /\ pending = Empty
    /\ \E w \in SenderWnds, mw \in SenderMaxWnds, cw \in SenderCwnds,
          mss \in SenderMss, n \in SenderQueued, closed \in BOOLEAN :
        /\ streams = Put(Empty, SenderQuad,
                         SenderTcb(OpenSender(w, mw, cw, mss, n), closed,
                                   overflow_checks))
        /\ handles = Put(Empty, 1,
               [NewHandle([quad |-> SenderQuad], "connect") EXCEPT
                   !.wrote = n, !.closed = closed,
                   !.pc = IF closed THEN "close_wait" ELSE "idle"])
    /\ flags = Put(Empty, 1, FlagsOf(streams[SenderQuad]))
    /\ nextArc = 2
    /\ listeners = [p \in BindPorts |-> "none"]
    /\ conn = [pc |-> "idle", port |-> FallbackPort + 1, quad |-> SenderQuad,
               arc |-> 1, got |-> SenderQuad]
    /\ fault = NoFault
    /\ signalled = {}
    /\ frames = 0
    /\ calls = 0
    /\ ev = NoEvent

\* The peer acknowledges up to a and offers the window w.
PeerAck ==
    \E q \in DOMAIN streams :
        \E a \in {WrappingAdd(streams[q].snd.una, 1), streams[q].snd.nxt}, w \in SenderWnds :
            LoopSegment(q, Segment(streams[q].rcv.nxt, a, FALSE, TRUE, FALSE, FALSE,
                                   w, None, <<>>))

SenderNext ==
    \/ LoopIdle
    \/ PeerAck
    \/ Elapse

SenderSpec == SenderInit /\ [][SenderNext]_vars

\* The usable window U = SND.UNA + SND.WND - SND.NXT of sws_allows_send.
Usable(t) == AsUsize(WrappingSub(WrappingAdd(t.snd.una, t.snd.wnd), t.snd.nxt))

\* The new data segments among the frames out that on_tick wrote for t.
NewData(t, out) ==
    {i \in 1..Len(out) : out[i].seq = t.snd.nxt /\ out[i].data # <<>>}

\* The TCBs that hold 100 unsent bytes against a usable window of 200, an MSS
\* of 536 and a largest window of 4096.
SwsCase(t) ==
    /\ available_data_len(t, overflow_checks) = 100
    /\ Usable(t) = 200
    /\ t.snd.mss = DefaultMss
    /\ t.snd.max_wnd = 4096

RcvNxts == {0 - 2, 0 - 1, 0, PeerIsn, MaxI32, MinI32}
RcvWnds == {0, 1, 3, RcvBuf}

ReceiverQuad == <<FallbackPort + 1, "A">>

\* An established stream that expects the sequence number n of the peer and
\* offers it the window w.
OpenReceiver(n, w) ==
    [Establish([TcbSynSent(0, 1) EXCEPT !.snd.una = 1], SynAckOf(TcbSynSent(0, 1)))
        EXCEPT !.rcv.nxt = n, !.rcv.irs = WrappingSub(n, 1), !.rcv.wnd = w]

ReceiverInit ==
    /\ now = 0
    /\ overflow_checks \in BOOLEAN
    /\ iss = 0
    /\ bounded = {FallbackPort + 1}
    /\ established = Put(Empty, FallbackPort + 1, <<>>)
    /\ pending = Empty
    /\ \E n \in RcvNxts, w \in RcvWnds :
           streams = Put(Empty, ReceiverQuad, OpenReceiver(n, w))
    /\ flags = Put(Empty, 1, FlagsOf(TcbSynSent(0, 1)))
    /\ nextArc = 2
    /\ listeners = [p \in BindPorts |-> "none"]
    /\ conn = [pc |-> "idle", port |-> FallbackPort + 1, quad |-> ReceiverQuad,
               arc |-> 1, got |-> ReceiverQuad]
    /\ handles = Put(Empty, 1, NewHandle([quad |-> ReceiverQuad], "connect"))
    /\ fault = NoFault
    /\ signalled = {}
    /\ frames = 0
    /\ calls = 0
    /\ ev = NoEvent

\* A segment of the peer reaches the stream.
PeerSegment ==
    \E q \in DOMAIN streams : \E seg \in PeerSegs(streams[q]) : LoopSegment(q, seg)

\* The application closes the stream.
ReceiverClose == \E a \in DOMAIN handles : CloseCall(a, FALSE)

ReceiverNext ==
    \/ PeerSegment
    \/ LoopIdle
    \/ ReceiverClose

ReceiverSpec == ReceiverInit /\ [][ReceiverNext]_vars

\* x is one of the wnd sequence numbers nxt, nxt + 1, ..., nxt + wnd - 1,
\* modulo 2^32.
InWindow(nxt, wnd, x) == ULt(WrappingSub(x, nxt), wnd)

\* The four rows of the acceptability table.
Acceptable(nxt, wnd, seq, len) ==
    IF len = 0 /\ wnd = 0 THEN seq = nxt
    ELSE IF len = 0 THEN InWindow(nxt, wnd, seq)
    ELSE IF wnd = 0 THEN FALSE
    ELSE \/ InWindow(nxt, wnd, seq)
         \/ InWindow(nxt, wnd, WrappingSub(WrappingAdd(seq, len), 1))

\* The distances from rcv.nxt at which a segment is tried against the window
\* wnd: around its two edges, and half the sequence space away.
ProbeOffsets(wnd) ==
    {0 - 3, 0 - 2, 0 - 1, 0, 1, 2, 3, MaxI32, MinI32}
        \cup {wnd - 3, wnd - 2, wnd - 1, wnd, wnd + 1}
ProbeLens == {0, 1, 3}
Shifts == {1, PeerIsn, MinI32, 0 - 1}

\* C22: is_segment_valid gives the verdict of the four-row acceptability
\* table for every sequence number, length and window, modulo 2^32, and the
\* verdict is the same when seq and rcv.nxt are shifted by the same constant,
\* across the wrap as well.
C22_AcceptabilityTable ==
    \A t \in Tcbs : \A d \in ProbeOffsets(t.rcv.wnd), len \in ProbeLens :
        LET seq == WrappingAdd(t.rcv.nxt, d)
        IN  /\ is_segment_valid(t, seq, len)
                = Acceptable(t.rcv.nxt, t.rcv.wnd, seq, len)
            /\ \A k \in Shifts :
                is_segment_valid([t EXCEPT !.rcv.nxt = WrappingAdd(@, k)],
                                 WrappingAdd(seq, k), len)
                    = is_segment_valid(t, seq, len)

\* The peer's data was accepted across the wrap: the stream started at
\* 2^32 - 3 and the next sequence number expected is past 0.
C22_AcceptedAcrossWrap ==
    \E t \in Tcbs :
        /\ Running
        /\ ev.op = "segment"
        /\ t.rcv.irs = 0 - 3
        /\ t.rcv.nxt >= 0
        /\ t.incoming # <<>>

\* The segments the peer sends at rcv.nxt: a pure ACK, and segments with a
\* payload, a SYN or a FIN, with the ACK bit and without it.
SegsAtRcvNxt(t) ==
    {Segment(t.rcv.nxt, t.snd.nxt, syn, ack, fin, FALSE, 2, None, Bytes(t.rcv.nxt, n)) :
        syn \in BOOLEAN, ack \in BOOLEAN, fin \in BOOLEAN, n \in 0..MaxData}

\* The sequence space a segment occupies: its payload, its SYN and its FIN.
SeqSpace(seg) ==
    Len(seg.data) + (IF seg.syn THEN 1 ELSE 0) + (IF seg.fin THEN 1 ELSE 0)

\* C23: with rcv.wnd = 0, on_segment accepts a segment at seq = rcv.nxt if and
\* only if it occupies no sequence space (no payload, SYN or FIN), whether or
\* not its ACK bit is set: a pure ACK at rcv.nxt passes the acceptability
\* check.
C23_ZeroWindowAcceptsPureAck ==
    \A t \in Tcbs :
        (Running /\ t.state \notin {"none", "Listen", "SynSent"} /\ t.rcv.wnd = 0) =>
            \A seg \in SegsAtRcvNxt(t) :
                is_segment_valid(t, seg.seq, seg_len_of(seg)) = (SeqSpace(seg) = 0)

\* C24: process_ack terminates for every acknowledgment number and every
\* content of the retransmission queue: the segment loop never stays in the
\* `while !self.segments.is_empty()` loop of process_ack.
C24_ProcessAckTerminates == fault.kind # "hang"

\* The data segments among the frames out of on_tick: those with a payload
\* that are not the zero-window probe.
DataFrames(out) ==
    {i \in 1..Len(out) : out[i].data # <<>> /\ out[i].data # ProbeData}

\* The frame f of the TCB t carries, at each sequence number, the byte the
\* application wrote at that place of the stream: the k-th byte written has
\* the sequence number iss + k.
AtAssignedSeq(t, f) ==
    \A j \in 1..Len(f.data) :
        f.data[j] = WrappingSub(WrappingAdd(f.seq, j - 1), t.snd.iss)

\* C25: every data byte on_tick emits, at a first transmission or at a
\* retransmission, is sent at the sequence number it was first assigned: the
\* byte at sequence number s is the byte written at stream offset s - iss - 1.
C25_BytesKeepTheirSeq ==
    \A t \in Tcbs :
        Running =>
            \A i \in DataFrames(on_tick(t, now, overflow_checks).out) :
                AtAssignedSeq(t, on_tick(t, now, overflow_checks).out[i])

\* The sequence numbers in flight: snd.nxt - snd.una.
InFlight(t) == AsUsize(WrappingSub(t.snd.nxt, t.snd.una))

BareSyns(t) == {seg \in PeerSegs(t) : seg.syn /\ ~seg.ack /\ ~seg.rst}

\* C29: in SynSent a segment with SYN set and ACK clear always moves the TCB
\* to SynRcvd, is answered with a SYN+ACK and returns Noop, whatever iss and
\* the segment's acknowledgment field are; it never moves the TCB to
\* Established.
C29_SimultaneousOpen ==
    \A t \in Tcbs :
        (Running /\ t.state = "SynSent") =>
            \A seg \in BareSyns(t) :
                /\ on_segment(t, seg, now, overflow_checks).tcb.state = "SynRcvd"
                /\ on_segment(t, seg, now, overflow_checks).action = "Noop"
                /\ on_segment(t, seg, now, overflow_checks).out
                       = <<write_synack(t.snd.nxt, WrappingAdd(seg.seq, 1), t.snd.wnd)>>

\* The segments tried against the TCB t: those of the peer, those at rcv.nxt,
\* and resets before, at and after rcv.nxt with the ACK bit set or clear.
TriedSegs(t) ==
    PeerSegs(t) \cup SegsAtRcvNxt(t)
        \cup {Segment(WrappingAdd(t.rcv.nxt, d), t.snd.nxt, FALSE, ack, FALSE, TRUE,
                      2, None, <<>>) : d \in {0 - 1, 0, 1}, ack \in BOOLEAN}

\* C30: in every state but Listen and SynSent, a segment that fails the
\* acceptability check of on_segment leaves every field of the TCB as it was,
\* returns Noop, and is answered with exactly one ACK
\* <SEQ=snd.nxt, ACK=rcv.nxt, WND=rcv.wnd> if its RST bit is clear and with
\* nothing if it is set; checked with the window the TCB offers and with a
\* closed window.
C30_UnacceptableSegmentDropped ==
    \A t0 \in Tcbs : \A w \in {0, t0.rcv.wnd} :
        LET t == [t0 EXCEPT !.rcv.wnd = w]
        IN  (Running /\ t.state \notin {"none", "Listen", "SynSent"}) =>
                \A seg \in TriedSegs(t) :
                    ~is_segment_valid(t, seg.seq, seg_len_of(seg)) =>
                        /\ on_segment(t, seg, now, overflow_checks).st = "ok"
                        /\ on_segment(t, seg, now, overflow_checks).tcb = t
                        /\ on_segment(t, seg, now, overflow_checks).action = "Noop"
                        /\ on_segment(t, seg, now, overflow_checks).out
                               = IF seg.rst THEN <<>>
                                 ELSE <<write_ack(t.snd.nxt, t.rcv.nxt, t.rcv.wnd)>>

\* The segment loop dropped a segment of the peer that the stream, offering a
\* closed window, could not accept.
C30_DroppedAtClosedWindow ==
    \E q \in DOMAIN streams :
        /\ Running
        /\ ev.op = "segment"
        /\ ev.quad = q
        /\ ev.src = "streams"
        /\ ev.action = "Noop"
        /\ ev.res = "ok"
        /\ streams[q].rcv.wnd = 0
        /\ streams[q].state = "Estab"

\* The resets the peer sends at rcv.nxt, with and without ACK and FIN.
RstSegs(t) ==
    {Segment(t.rcv.nxt, a, FALSE, ack, fin, TRUE, 2, None, <<>>) :
        a \in {t.snd.una, t.snd.nxt}, ack \in BOOLEAN, fin \in BOOLEAN}

\* C31: an acceptable segment with RST set makes the TCB set its reset flag
\* and return Reset in Established, FinWait1, FinWait2 and CloseWait, and is
\* ignored in Closing, LastAck and TimeWait, whatever other bits it carries:
\* there no field of the TCB changes, nothing is emitted and the action is
\* neither DeleteTCB nor Reset.
C31_ResetHandling ==
    \A t \in Tcbs :
        Running =>
            \A seg \in RstSegs(t) :
                is_segment_valid(t, seg.seq, seg_len_of(seg)) =>
                    /\ t.state \in SyncRstStates =>
                        /\ on_segment(t, seg, now, overflow_checks).tcb
                               = [t EXCEPT !.reset = TRUE]
                        /\ on_segment(t, seg, now, overflow_checks).action = "Reset"
                    /\ t.state \in {"Closing", "LastAck", "TimeWait"} =>
                        /\ on_segment(t, seg, now, overflow_checks).st = "ok"
                        /\ on_segment(t, seg, now, overflow_checks).tcb = t
                        /\ on_segment(t, seg, now, overflow_checks).out = <<>>
                        /\ on_segment(t, seg, now, overflow_checks).action
                               \notin {"DeleteTCB", "Reset"}

\* The tick passes of segment_loop when on_tick returns true for the pending
\* TCB at q and what it returns now for every other TCB.
TickPassDeleting(q) ==
    TickResults(TickAll(streams), [TickAll(pending) EXCEPT ![q].del = TRUE])

AdvertisedWnd(t, w) ==
    Segment(t.rcv.nxt, t.snd.una, FALSE, TRUE, FALSE, FALSE, w, None, <<>>)

\* The windows the peer advertises in an update.
UpdateWnds == {0, 2, 3}

\* C33: snd.max_wnd is the maximum of the windows the peer advertised in the
\* segments accepted for a window update: when an update in a synchronized
\* state carries a window larger than any seen before, max_wnd rises to it
\* and snd.wnd takes the advertised value.
C33_MaxWndFollowsUpdates ==
    \A t \in Tcbs : \A w \in UpdateWnds :
        (/\ Running
         /\ t.state \in AckStates
         /\ wrapping_lt(t.snd.wl1, t.rcv.nxt)
         /\ on_segment(t, AdvertisedWnd(t, w), now, overflow_checks).st = "ok"
         /\ on_segment(t, AdvertisedWnd(t, w), now, overflow_checks).tcb.snd.wl1
                = t.rcv.nxt) =>
            /\ on_segment(t, AdvertisedWnd(t, w), now, overflow_checks).tcb.snd.wnd = w
            /\ on_segment(t, AdvertisedWnd(t, w), now, overflow_checks).tcb.snd.max_wnd
                   = Max(t.snd.max_wnd, w)

\* The zero-window probes among the frames out of on_tick for t: the frames
\* with a payload at snd.una - 1.
Probes(t, out) ==
    {i \in 1..Len(out) : out[i].seq = WrappingSub(t.snd.una, 1) /\ out[i].data # <<>>}

\* C34: after a window update with window 0 armed probe_timeout, on_tick
\* emits no probe before probe_timeout has expired; once it has expired
\* on_tick emits one probe of a single octet at snd.una - 1 and re-arms
\* probe_timeout.
C34_ProbeAfterTimeout ==
    \A t \in Tcbs :
        (/\ Running
         /\ t.probe_timeout # None
         /\ t.timeout = None
         /\ t.outgoing = <<>>
         /\ on_tick(t, now, overflow_checks).st = "ok") =>
            IF now < t.probe_timeout
            THEN Probes(t, on_tick(t, now, overflow_checks).out) = {}
            ELSE /\ Cardinality(Probes(t, on_tick(t, now, overflow_checks).out)) = 1
                 /\ \A i \in Probes(t, on_tick(t, now, overflow_checks).out) :
                        Len(on_tick(t, now, overflow_checks).out[i].data) = 1
                 /\ on_tick(t, now, overflow_checks).tcb.probe_timeout > now

\* The peer's acknowledgments of the TCB t at rcv.nxt.
AckSegs(t) ==
    {Segment(t.rcv.nxt, a, FALSE, TRUE, FALSE, FALSE, 2, None, <<>>) :
        a \in {WrappingAdd(t.snd.una, 1), t.snd.nxt}}

\* C35: when an acceptable ACK in Established, FinWait1, FinWait2, CloseWait
\* or Closing acknowledges new data, so that bytes are drained from outgoing,
\* on_segment returns Wakeup with wake_up_writer set (the writer blocked on a
\* full buffer and the flush waiting for it to empty are then notified).
C35_AckWakesWriter ==
    \A t \in Tcbs :
        (Running /\ t.state \in AckStates) =>
            \A seg \in AckSegs(t) :
                (/\ on_segment(t, seg, now, overflow_checks).st = "ok"
                 /\ Len(on_segment(t, seg, now, overflow_checks).tcb.outgoing)
                        < Len(t.outgoing)) =>
                    /\ on_segment(t, seg, now, overflow_checks).action = "Wakeup"
                    /\ on_segment(t, seg, now, overflow_checks).ww

\* The segments that reach a bound port with no pending or established TCB:
\* every combination of SYN, ACK and RST, with and without a payload, at the
\* peer's initial sequence number and at the last sequence number.
ListenSeqs == {PeerIsn, 0 - 1}
ListenSegs ==
    {Segment(s, 0, syn, ack, FALSE, rst, 2, None, Bytes(s, n)) :
        s \in ListenSeqs, syn \in BOOLEAN, ack \in BOOLEAN, rst \in BOOLEAN,
        n \in 0..1}

\* The SynRcvd TCB that the Listen TCB t hands to AddToPending for seg.
SynRcvdOf(t, seg) ==
    [t EXCEPT !.state = "SynRcvd",
              !.rcv.irs = seg.seq,
              !.rcv.nxt = WrappingAdd(seg.seq, 1),
              !.snd.una = t.snd.iss,
              !.snd.nxt = WrappingAdd(t.snd.iss, 1),
              !.snd.wnd = seg.wnd,
              !.snd.max_wnd = seg.wnd,
              !.snd.mss = DefaultMss,
              !.segments = <<NewSegment(t.snd.iss, 1, FALSE, TRUE, TRUE, None, None)>>]

\* What the claim C36 says of the Listen TCB t and the segment seg.
ListenHandled(t, seg, r) ==
    /\ r.st = "ok"
    /\ (r.action = "AddToPending") = (seg.syn /\ ~seg.rst /\ ~seg.ack)
    /\ r.action \in {"AddToPending", "Noop"}
    /\ seg.rst => r.tcb = t /\ r.out = <<>>
    /\ (~seg.rst /\ seg.ack) => r.tcb = t /\ r.out = <<write_reset(seg)>>
    /\ r.action = "Noop" => r.tcb = t
    /\ r.action = "AddToPending" =>
           /\ r.tcb = SynRcvdOf(t, seg)
           /\ r.out = <<>>
           /\ on_tick(r.tcb, now, overflow_checks).out
                  = <<write_data(t.snd.iss, WrappingAdd(seg.seq, 1), r.tcb.rcv.wnd,
                                 <<>>, FALSE, TRUE, TRUE, None)>>

\* C36: for a segment addressed to a bound port with no pending or
\* established TCB, the transient Listen TCB yields AddToPending (a SynRcvd
\* TCB with rcv.irs = seg.seq, rcv.nxt = seg.seq + 1, snd.una = iss,
\* snd.nxt = iss + 1 and one queued SYN+ACK segment of length 1 at iss) if
\* and only if SYN is set and RST and ACK are clear; a RST is ignored, an ACK
\* is answered with a reset, nothing else creates a pending entry, and the
\* SYN+ACK <SEQ=iss, ACK=irs+1> is written by the next on_tick, not by
\* on_segment.
C36_ListenHandling ==
    \A seg \in ListenSegs :
        (Running /\ bounded # {} /\ streams = Empty /\ pending = Empty) =>
        ListenHandled(TcbListen(iss, nextArc), seg,
                      on_segment(TcbListen(iss, nextArc), seg, now, overflow_checks))

C38_AckedSegmentsWereSent == fault.site # "process_ack: seg.sent.unwrap()"

\* C39: TCB::close is only ever invoked on a TCB that is present in streams
\* and in state Established or CloseWait, for every sequence of application
\* calls and inbound events, so neither the stream lookup of TcpStream::close
\* nor the state assertion of TCB::close fails.
C39_CloseFindsOpenStream ==
    ev.op = "close" =>
        /\ fault.site # "close: streams.get_mut(&quad).unwrap()"
        /\ fault.site # "TCB::close: assert_eq!(state, CloseWait)"

\* C40: in every reachable state in which on_tick evaluates the send rule or
\* forms a data segment (outgoing is not empty), outgoing.len() is at least
\* snd.nxt - snd.una, so D = outgoing.len() - (snd.nxt - snd.una) is never
\* negative, also after close() queued a bare FIN while earlier data is still
\* unacknowledged in outgoing.
C40_UnsentLengthNonNegative ==
    \A t \in Tcbs :
        (Running /\ t.outgoing # <<>> /\ t.snd.una # t.snd.iss)
            => InFlight(t) <= Len(t.outgoing)
====
